---- MODULE Spec2Model ----
(***************************************************************************)
(* Turn-based battle engine (fierceful-atto): the Battle / TurnSystem      *)
(* state machine, the end-condition evaluator, the performer-suggestion    *)
(* search, the target resolver and the catalogue actions.                  *)
(*                                                                         *)
(* Identifiers are 0-based as in the source; TLA+ sequences are 1-based,   *)
(* so member (t, m) of a team list tl is tl[t + 1][m + 1].                  *)
(***************************************************************************)
EXTENDS Integers, Sequences, FiniteSets, TLC

VARIABLES
    team_list,                    \* Battle.team_list: Seq(Seq(member))
    turn_number,                  \* TurnSystem.turn_number (u64)
    suggested_performer,          \* TurnSystem.suggested_performer: Option<MemberIdentifier>
    end_condition,                \* TurnSystem.end_condition
    state,                        \* Battle.state
    suggested_performer_criteria, \* Battle.suggested_performer_criteria
    panicked,                     \* "" while the program runs, else the panic message
    running,                      \* TRUE while control is inside Battle::run's loop
    returned,                     \* Option<Vec<Team>>: what run()/take_teams() gave back
    callback_calls,               \* number of invocations of action_choice_callback
    act_calls,                    \* number of invocations of Action::act
    last_op,                      \* the entry point entered by the last step
    forced,                       \* TRUE once set_completed() has been called
    run_turns,                    \* number of turns executed by the loop of run()
    logging,                      \* TRUE when the steps of a turn are recorded
    turn_log,                     \* the recorded steps of the last executed turn, in order
    probe,                        \* result of the last pure-function evaluation
    descriptor,                   \* the Target a pure-function evaluation resolves
    U64_MAX,                      \* u64::MAX in the scale of the specification
    builder_args                  \* the policy the Builder was given, if it was given one

vars == <<team_list, turn_number, suggested_performer, end_condition, state,
          suggested_performer_criteria, panicked, running, returned,
          callback_calls, act_calls, last_op, forced, run_turns, logging, turn_log,
          probe, descriptor, U64_MAX, builder_args>>

---------------------------------------------------------------------------
(* Bounds of the model *)

\* Stand-in for u64::MAX where the limits of the type matter: every u64 of
\* the program (turn counter, health, attack, amounts) lives in 0..MaxU64.
MaxU64 == 3

\* Stand-in for u64::MAX where the program works on the numbers of the
\* examples, all of them far below the limit of the type.
ExampleU64 == 1000

\* Reference health of the members a battle starts with.
MaxHealth == 2

\* Largest amount carried by Heal / Sacrifice / Drain in the callback's choices.
MaxAmount == 1

\* Team lists of the pure-function specifications: at most MaxTeams teams of
\* at most MaxMembers members.
MaxTeams == 3
MaxMembers == 2

\* Longest identifier list of a DiscreteMultiple handed to the resolver on
\* its own: room for a repetition around another identifier.
MaxIds == 3

\* members_alive / teams_alive are u8 counters.
U8Max == 255

---------------------------------------------------------------------------
(* Integer helpers: u64 arithmetic as the source uses it *)

Min(a, b) == IF a < b THEN a ELSE b

\* u64::saturating_add
saturating_add(a, b) == IF a + b > U64_MAX THEN U64_MAX ELSE a + b

\* u64::saturating_sub
saturating_sub(a, b) == IF a < b THEN 0 ELSE a - b

\* u64::checked_add: None on overflow
checked_add(a, b) ==
    IF a + b > U64_MAX THEN [some |-> FALSE, val |-> 0]
                      ELSE [some |-> TRUE, val |-> a + b]

\* u8::saturating_add
saturating_add_u8(a, b) == IF a + b > U8Max THEN U8Max ELSE a + b

---------------------------------------------------------------------------
(* MemberIdentifier and Option<MemberIdentifier> *)

MemberIdentifier(t, m) == [team_id |-> t, member_id |-> m]

\* MemberIdentifier::zeroed() / Default
zeroed == MemberIdentifier(0, 0)

Some(id) == [some |-> TRUE, team_id |-> id.team_id, member_id |-> id.member_id]
None == [some |-> FALSE, team_id |-> 0, member_id |-> 0]

\* Mutant: without a last performer the scan starts at the very first member
unwrap_or_before_first(opt) ==
    IF opt.some THEN MemberIdentifier(opt.team_id, opt.member_id)
    ELSE MemberIdentifier(0, -1)

\* Option::unwrap_or_default
unwrap_or_default(opt) ==
    IF opt.some THEN MemberIdentifier(opt.team_id, opt.member_id) ELSE zeroed

\* slice.get(i) succeeds
InRange(seq, i) == i >= 0 /\ i < Len(seq)

\* Team::member(member_id) on team team_id exists
MemberExists(tl, id) ==
    /\ InRange(tl, id.team_id)
    /\ InRange(tl[id.team_id + 1], id.member_id)

\* Identifiers of the roster in roster order (team index, then member index)
RECURSIVE RosterFrom(_, _)
RosterFrom(tl, t) ==
    IF t >= Len(tl) THEN <<>>
    ELSE [m \in 1..Len(tl[t + 1]) |-> MemberIdentifier(t, m - 1)] \o RosterFrom(tl, t + 1)

\* Mutant: the teams are gone through from the last one to the first
RECURSIVE Roster_teams_reversed(_)
Roster_teams_reversed(tl) ==
    IF Len(tl) = 0 THEN <<>>
    ELSE [m \in 1..Len(tl[Len(tl)]) |-> MemberIdentifier(Len(tl) - 1, m - 1)]
            \o Roster_teams_reversed(SubSeq(tl, 1, Len(tl) - 1))

Roster(tl) == RosterFrom(tl, 0)

\* The member an identifier denotes: team_list[team_id].member(member_id)
tl_member(tl, id) == tl[id.team_id + 1][id.member_id + 1]

\* Member::health
health(tl, id) == tl[id.team_id + 1][id.member_id + 1].health

---------------------------------------------------------------------------
(* End-condition evaluator: TurnSystem::battle_should_end *)

\* Mutant: the battle goes on until nobody is left
RECURSIVE last_member_standing_none_left(_, _, _, _)
last_member_standing_none_left(tl, t, m, members_alive) ==
    IF t > Len(tl) THEN TRUE
    ELSE IF m > Len(tl[t]) THEN last_member_standing_none_left(tl, t + 1, 1, members_alive)
    ELSE IF tl[t][m].health > 0
         THEN LET alive == saturating_add_u8(members_alive, 1)
              IN  IF alive >= 1 THEN FALSE
                  ELSE last_member_standing_none_left(tl, t, m + 1, alive)
         ELSE last_member_standing_none_left(tl, t, m + 1, members_alive)

\* LastMemberStanding: the nested loops over teams t and members m (1-based
\* here), with the u8 counter and the early `return false` at 2.
RECURSIVE last_member_standing(_, _, _, _)
last_member_standing(tl, t, m, members_alive) ==
    IF t > Len(tl) THEN TRUE
    ELSE IF m > Len(tl[t]) THEN last_member_standing(tl, t + 1, 1, members_alive)
    ELSE IF tl[t][m].health > 0
         THEN LET alive == saturating_add_u8(members_alive, 1)
              IN  IF alive >= 2 THEN FALSE
                  ELSE last_member_standing(tl, t, m + 1, alive)
         ELSE last_member_standing(tl, t, m + 1, members_alive)

\* Mutant: the inner loop goes on after the first living member of a team
RECURSIVE last_team_standing_no_break(_, _, _, _)
last_team_standing_no_break(tl, t, m, teams_alive) ==
    IF t > Len(tl) THEN TRUE
    ELSE IF m > Len(tl[t]) THEN last_team_standing_no_break(tl, t + 1, 1, teams_alive)
    ELSE IF tl[t][m].health > 0
         THEN LET alive == saturating_add_u8(teams_alive, 1)
              IN  IF alive >= 2 THEN FALSE
                  ELSE last_team_standing_no_break(tl, t, m + 1, alive)
         ELSE last_team_standing_no_break(tl, t, m + 1, teams_alive)

\* LastTeamStanding: as above, but the inner loop breaks at the first living
\* member of a team.
RECURSIVE last_team_standing(_, _, _, _)
last_team_standing(tl, t, m, teams_alive) ==
    IF t > Len(tl) THEN TRUE
    ELSE IF m > Len(tl[t]) THEN last_team_standing(tl, t + 1, 1, teams_alive)
    ELSE IF tl[t][m].health > 0
         THEN LET alive == saturating_add_u8(teams_alive, 1)
              IN  IF alive >= 2 THEN FALSE
                  ELSE last_team_standing(tl, t + 1, 1, alive)
         ELSE last_team_standing(tl, t, m + 1, teams_alive)

battle_should_end(tl, ec) ==
    IF ec = "LastMemberStanding"
    THEN last_member_standing(tl, 1, 1, 0)
    ELSE last_team_standing(tl, 1, 1, 0)

---------------------------------------------------------------------------
(* Performer-suggestion search: SuggestedPerformerCriteria::search *)

\* Mutant: one element too many is taken from the cycle
cycle_from_point_enumerated_overlong(slice, start_pos) ==
    IF Len(slice) = 0 THEN <<>>
    ELSE [k \in 1..(Len(slice) + 1) |-> (start_pos + k - 1) % Len(slice)]

\* slice.iter().enumerate().cycle().skip(start_pos).take(slice.len()):
\* the 0-based indices of the slice in the order they are yielded.
cycle_from_point_enumerated(slice, start_pos) ==
    [k \in 1..Len(slice) |-> (start_pos + k - 1) % Len(slice)]

\* The closures a battle may be configured with for CycleWith.
Conditions == {"alive", "always", "reference_health", "second_member"}

\* condition(id, member)
condition_holds(c, id, member) ==
    CASE c = "alive" -> member.health > 0
      [] c = "always" -> TRUE
      [] c = "second_member" -> id.member_id = 1
      [] OTHER -> member.health = member.reference_health

\* What a search loop hands back: the Option it returns and, in order, the
\* identifiers of the members it has looked at.
Searched(found, examined) == [found |-> found, examined |-> examined]

\* Mutant: the first member looked at is returned, alive or not
cycle_alive_members_any(team, team_id, member_id, examined) ==
    IF member_id >= Len(team) THEN Searched(None, examined)
    ELSE Searched(Some(MemberIdentifier(team_id, member_id)),
                  Append(examined, MemberIdentifier(team_id, member_id)))

\* CycleAlive, inner loop: members of `team` from index member_id on
RECURSIVE cycle_alive_members(_, _, _, _)
cycle_alive_members(team, team_id, member_id, examined) ==
    IF member_id >= Len(team) THEN Searched(None, examined)
    ELSE LET seen == Append(examined, MemberIdentifier(team_id, member_id))
         IN  IF team[member_id + 1].health # 0
             THEN Searched(Some(MemberIdentifier(team_id, member_id)), seen)
             ELSE cycle_alive_members(team, team_id, member_id + 1, seen)

\* Mutant: the starting team is scanned from the current member on
RECURSIVE cycle_alive_teams_from_current(_, _, _, _, _)
cycle_alive_teams_from_current(tl, order, current, k, examined) ==
    IF k > Len(order) THEN Searched(None, examined)
    ELSE LET team_id == order[k]
             skip == IF current.team_id = team_id THEN current.member_id ELSE 0
             inner == cycle_alive_members(tl[team_id + 1], team_id, skip, examined)
         IN  IF inner.found.some THEN inner
             ELSE cycle_alive_teams_from_current(tl, order, current, k + 1, inner.examined)

\* Mutant: only the team of the last performer is gone through
RECURSIVE cycle_alive_teams_own_team(_, _, _, _, _)
cycle_alive_teams_own_team(tl, order, current, k, examined) ==
    IF k > Len(order) \/ k > 1 THEN Searched(None, examined)
    ELSE LET team_id == order[k]
             skip == IF current.team_id = team_id THEN current.member_id + 1 ELSE 0
             inner == cycle_alive_members(tl[team_id + 1], team_id, skip, examined)
         IN  IF inner.found.some THEN inner
             ELSE cycle_alive_teams_own_team(tl, order, current, k + 1, inner.examined)

\* CycleAlive, outer loop: k-th team of the cycle on. Member indices are far
\* below usize::MAX, so member_id + 1 does not overflow.
RECURSIVE cycle_alive_teams(_, _, _, _, _)
cycle_alive_teams(tl, order, current, k, examined) ==
    IF k > Len(order) THEN Searched(None, examined)
    ELSE LET team_id == order[k]
             skip == IF current.team_id = team_id THEN current.member_id + 1 ELSE 0
             inner == cycle_alive_members(tl[team_id + 1], team_id, skip, examined)
         IN  IF inner.found.some THEN inner
             ELSE cycle_alive_teams(tl, order, current, k + 1, inner.examined)

\* Mutant: the predicate is handed the identifier of the team's first member
RECURSIVE cycle_with_members_first_id(_, _, _, _, _)
cycle_with_members_first_id(c, team, team_id, member_id, examined) ==
    IF member_id >= Len(team) THEN Searched(None, examined)
    ELSE LET id == MemberIdentifier(team_id, 0)
             seen == Append(examined, MemberIdentifier(team_id, member_id))
         IN  IF condition_holds(c, id, team[member_id + 1])
             THEN Searched(Some(MemberIdentifier(team_id, member_id)), seen)
             ELSE cycle_with_members_first_id(c, team, team_id, member_id + 1, seen)

\* CycleWith, inner loop
RECURSIVE cycle_with_members(_, _, _, _, _)
cycle_with_members(c, team, team_id, member_id, examined) ==
    IF member_id >= Len(team) THEN Searched(None, examined)
    ELSE LET id == MemberIdentifier(team_id, member_id)
             seen == Append(examined, id)
         IN  IF condition_holds(c, id, team[member_id + 1])
             THEN Searched(Some(MemberIdentifier(team_id, member_id)), seen)
             ELSE cycle_with_members(c, team, team_id, member_id + 1, seen)

\* CycleWith, outer loop
RECURSIVE cycle_with_teams(_, _, _, _, _, _)
cycle_with_teams(c, tl, order, current, k, examined) ==
    IF k > Len(order) THEN Searched(None, examined)
    ELSE LET team_id == order[k]
             skip == IF current.team_id = team_id THEN current.member_id + 1 ELSE 0
             inner == cycle_with_members(c, tl[team_id + 1], team_id, skip, examined)
         IN  IF inner.found.some THEN inner
             ELSE cycle_with_teams(c, tl, order, current, k + 1, inner.examined)

\* SuggestedPerformerCriteria::search with the members it looked at;
\* criteria is [kind, id, condition]
search_examined(criteria, current_playing_member, tl) ==
    CASE criteria.kind = "None" -> Searched(None, <<>>)
      [] criteria.kind = "Constant" -> Searched(Some(criteria.id), <<>>)
      [] criteria.kind = "CycleAlive" ->
            LET current == unwrap_or_default(current_playing_member)
            IN  cycle_alive_teams(tl, cycle_from_point_enumerated(tl, current.team_id),
                                  current, 1, <<>>)
      [] OTHER ->
            LET current == unwrap_or_default(current_playing_member)
            IN  cycle_with_teams(criteria.condition, tl,
                                 cycle_from_point_enumerated(tl, current.team_id),
                                 current, 1, <<>>)

\* SuggestedPerformerCriteria::search
search(criteria, current_playing_member, tl) ==
    search_examined(criteria, current_playing_member, tl).found

\* Mutant: the member behind the last performer, whether there is one or not
suggest_next_performer_unchecked(sp, tl, criteria) ==
    Some(MemberIdentifier(unwrap_or_default(sp).team_id,
                          unwrap_or_default(sp).member_id + 1))

\* TurnSystem::suggest_next_performer
suggest_next_performer(sp, tl, criteria) == search(criteria, sp, tl)

CriteriaNone == [kind |-> "None", id |-> zeroed, condition |-> ""]
CriteriaConstant(id) == [kind |-> "Constant", id |-> id, condition |-> ""]
CriteriaCycleAlive == [kind |-> "CycleAlive", id |-> zeroed, condition |-> ""]
CriteriaCycleWith(c) == [kind |-> "CycleWith", id |-> zeroed, condition |-> c]

---------------------------------------------------------------------------
(* Targeting resolver: Context::target_iter *)

\* Target descriptors: [kind, ids, team_id]
Single(id) == [kind |-> "Single", ids |-> <<id>>, team_id |-> 0]
DiscreteMultiple(ids) == [kind |-> "DiscreteMultiple", ids |-> ids, team_id |-> 0]
FullTeam(t) == [kind |-> "FullTeam", ids |-> <<>>, team_id |-> t]
All == [kind |-> "All", ids |-> <<>>, team_id |-> 0]

\* Vec::contains
contains(ids, id) == \E i \in 1..Len(ids) : ids[i] = id

\* Mutant: DiscreteMultiple looks its identifiers up one by one
target_iter_by_lookup(tl, target) ==
    CASE target.kind = "Single" ->
            LET id == target.ids[1]
            IN  IF ~InRange(tl, id.team_id)
                THEN [panic |-> "could not find target team", refs |-> <<>>]
                ELSE IF ~InRange(tl[id.team_id + 1], id.member_id)
                THEN [panic |-> "could not find target member", refs |-> <<>>]
                ELSE [panic |-> "", refs |-> <<id>>]
      [] target.kind = "DiscreteMultiple" ->
            [panic |-> "",
             refs |-> SelectSeq(target.ids, LAMBDA id : MemberExists(tl, id))]
      [] target.kind = "FullTeam" ->
            IF ~InRange(tl, target.team_id)
            THEN [panic |-> "could not find target team", refs |-> <<>>]
            ELSE [panic |-> "",
                  refs |-> [m \in 1..Len(tl[target.team_id + 1]) |->
                                MemberIdentifier(target.team_id, m - 1)]]
      [] OTHER -> [panic |-> "", refs |-> Roster(tl)]

\* The identifiers of the members the iterator yields, in order, or the
\* panic raised while the iterator is built.
target_iter(tl, target) ==
    CASE target.kind = "Single" ->
            LET id == target.ids[1]
            IN  IF ~InRange(tl, id.team_id)
                THEN [panic |-> "could not find target team", refs |-> <<>>]
                ELSE IF ~InRange(tl[id.team_id + 1], id.member_id)
                THEN [panic |-> "could not find target member", refs |-> <<>>]
                ELSE [panic |-> "", refs |-> <<id>>]
      [] target.kind = "DiscreteMultiple" ->
            [panic |-> "",
             refs |-> SelectSeq(Roster(tl), LAMBDA id : contains(target.ids, id))]
      [] target.kind = "FullTeam" ->
            IF ~InRange(tl, target.team_id)
            THEN [panic |-> "could not find target team", refs |-> <<>>]
            ELSE [panic |-> "",
                  refs |-> [m \in 1..Len(tl[target.team_id + 1]) |->
                                MemberIdentifier(target.team_id, m - 1)]]
      [] OTHER -> [panic |-> "", refs |-> Roster(tl)]

---------------------------------------------------------------------------
(* Member capability and the catalogue actions *)

set_health(tl, id, h) ==
    [tl EXCEPT ![id.team_id + 1][id.member_id + 1].health = h]

\* Mutant: the subtraction wraps
damage_wrapping(tl, id, d) ==
    set_health(tl, id, (health(tl, id) + U64_MAX + 1 - d) % (U64_MAX + 1))

\* Member::damage -> Properties::damage: health saturates at 0
damage(tl, id, d) == set_health(tl, id, saturating_sub(health(tl, id), d))

\* Mutant: the attack is read from the health
final_attack_reads_health(member) == member.health

\* Member::final_properties().attack() with the default sum_properties (a clone)
final_attack(member) == member.attack

\* target.damage(d) for every yielded target, in order
RECURSIVE damage_each(_, _, _, _)
damage_each(tl, refs, i, d) ==
    IF i > Len(refs) THEN tl
    ELSE damage_each(damage(tl, refs[i], d), refs, i + 1, d)

\* Mutant: the reference health is no limit
RECURSIVE heal_each_unclamped(_, _, _, _)
heal_each_unclamped(tl, refs, i, amount) ==
    IF i > Len(refs) THEN tl
    ELSE LET member == tl[refs[i].team_id + 1][refs[i].member_id + 1]
             new_health == saturating_add(member.health, amount)
         IN  heal_each_unclamped(set_health(tl, refs[i], new_health), refs, i + 1, amount)

\* Mutant: the addition wraps
RECURSIVE heal_each_wrapping(_, _, _, _)
heal_each_wrapping(tl, refs, i, amount) ==
    IF i > Len(refs) THEN tl
    ELSE LET member == tl[refs[i].team_id + 1][refs[i].member_id + 1]
             new_health == Min((member.health + amount) % (U64_MAX + 1),
                               member.reference_health)
         IN  heal_each_wrapping(set_health(tl, refs[i], new_health), refs, i + 1, amount)

\* health = min(health saturating+ amount, reference health) for every target.
\* The log line's `new_health - current_health` is not modelled: it cannot
\* underflow while health <= reference health, which Init establishes and
\* every action keeps.
RECURSIVE heal_each(_, _, _, _)
heal_each(tl, refs, i, amount) ==
    IF i > Len(refs) THEN tl
    ELSE LET member == tl[refs[i].team_id + 1][refs[i].member_id + 1]
             new_health == Min(saturating_add(member.health, amount),
                               member.reference_health)
         IN  heal_each(set_health(tl, refs[i], new_health), refs, i + 1, amount)

\* Mutant: the sum wraps
RECURSIVE total_attack_wrapping(_, _, _, _)
total_attack_wrapping(tl, refs, i, acc) ==
    IF i > Len(refs) THEN acc
    ELSE total_attack_wrapping(tl, refs, i + 1,
            (acc + final_attack(tl[refs[i].team_id + 1][refs[i].member_id + 1]))
                % (U64_MAX + 1))

\* fold(0, saturating_add) of the performers' final attack
RECURSIVE total_attack(_, _, _, _)
total_attack(tl, refs, i, acc) ==
    IF i > Len(refs) THEN acc
    ELSE total_attack(tl, refs, i + 1,
            saturating_add(acc, final_attack(tl[refs[i].team_id + 1][refs[i].member_id + 1])))

\* Sacrifice, first pass: each performer is damaged by amount and contributes
\* amount to the total.
RECURSIVE sacrifice_performers(_, _, _, _, _)
sacrifice_performers(tl, refs, i, amount, acc) ==
    IF i > Len(refs) THEN [teams |-> tl, total |-> acc]
    ELSE sacrifice_performers(damage(tl, refs[i], amount), refs, i + 1, amount,
                              saturating_add(acc, amount))

\* Drain, first pass: each target is damaged by amount and contributes the
\* health it actually lost.
RECURSIVE drain_targets(_, _, _, _, _)
drain_targets(tl, refs, i, amount, acc) ==
    IF i > Len(refs) THEN [teams |-> tl, total |-> acc]
    ELSE LET initial_health == health(tl, refs[i])
             after == damage(tl, refs[i], amount)
         IN  drain_targets(after, refs, i + 1, amount,
                           saturating_add(acc, initial_health - health(after, refs[i])))

\* SelfDestruct, first pass: each performer's health is zeroed and contributes
\* the health it had.
RECURSIVE self_destruct_performers(_, _, _, _)
self_destruct_performers(tl, refs, i, acc) ==
    IF i > Len(refs) THEN [teams |-> tl, total |-> acc]
    ELSE self_destruct_performers(set_health(tl, refs[i], 0), refs, i + 1,
                                  saturating_add(acc, health(tl, refs[i])))

\* Mutant: the members left without health are taken out of their teams
Acted_pruned(tl) ==
    [teams |-> [t \in 1..Len(tl) |-> SelectSeq(tl[t], LAMBDA member : member.health > 0)],
     panic |-> ""]

Acted(tl) == [teams |-> tl, panic |-> ""]
ActPanic(tl, msg) == [teams |-> tl, panic |-> msg]

\* Mutant: the targets are counted but not damaged
DirectAttack_act_harmless(tl, performers, targets) ==
    LET p == target_iter(tl, performers)
    IN  IF p.panic # "" THEN ActPanic(tl, p.panic)
        ELSE LET t == target_iter(tl, targets)
             IN  IF t.panic # "" THEN ActPanic(tl, t.panic)
                 ELSE Acted(tl)

DirectAttack_act(tl, performers, targets) ==
    LET p == target_iter(tl, performers)
    IN  IF p.panic # "" THEN ActPanic(tl, p.panic)
        ELSE LET total_damage == total_attack(tl, p.refs, 1, 0)
                 t == target_iter(tl, targets)
             IN  IF t.panic # "" THEN ActPanic(tl, t.panic)
                 ELSE Acted(damage_each(tl, t.refs, 1, total_damage))

Heal_act(amount, tl, performers, targets) ==
    LET t == target_iter(tl, targets)
    IN  IF t.panic # "" THEN ActPanic(tl, t.panic)
        ELSE Acted(heal_each(tl, t.refs, 1, amount))

\* Mutant: skipping costs every performer one point of health
Skip_act_tiring(tl, performers, targets) ==
    LET p == target_iter(tl, performers)
    IN  IF p.panic # "" THEN ActPanic(tl, p.panic)
        ELSE Acted(damage_each(tl, p.refs, 1, 1))

Skip_act(tl, performers, targets) ==
    LET p == target_iter(tl, performers)
    IN  IF p.panic # "" THEN ActPanic(tl, p.panic) ELSE Acted(tl)

Sacrifice_act(amount, tl, performers, targets) ==
    LET p == target_iter(tl, performers)
    IN  IF p.panic # "" THEN ActPanic(tl, p.panic)
        ELSE LET s == sacrifice_performers(tl, p.refs, 1, amount, 0)
                 t == target_iter(s.teams, targets)
             IN  IF t.panic # "" THEN ActPanic(s.teams, t.panic)
                 ELSE Acted(heal_each(s.teams, t.refs, 1, s.total))

Drain_act(amount, tl, performers, targets) ==
    LET t == target_iter(tl, targets)
    IN  IF t.panic # "" THEN ActPanic(tl, t.panic)
        ELSE LET d == drain_targets(tl, t.refs, 1, amount, 0)
                 p == target_iter(d.teams, performers)
             IN  IF p.panic # "" THEN ActPanic(d.teams, p.panic)
                 ELSE Acted(heal_each(d.teams, p.refs, 1, d.total))

SelfDestruct_act(tl, performers, targets) ==
    LET p == target_iter(tl, performers)
    IN  IF p.panic # "" THEN ActPanic(tl, p.panic)
        ELSE LET s == self_destruct_performers(tl, p.refs, 1, 0)
                 t == target_iter(s.teams, targets)
             IN  IF t.panic # "" THEN ActPanic(s.teams, t.panic)
                 ELSE Acted(damage_each(s.teams, t.refs, 1, s.total))

\* Mutant: every target takes the whole attack
AreaAttack_act_undivided(tl, performers, targets) ==
    LET p == target_iter(tl, performers)
    IN  IF p.panic # "" THEN ActPanic(tl, p.panic)
        ELSE LET total == total_attack(tl, p.refs, 1, 0)
                 t == target_iter(tl, targets)
             IN  IF t.panic # "" THEN ActPanic(tl, t.panic)
                 ELSE Acted(damage_each(tl, t.refs, 1, total))

AreaAttack_act(tl, performers, targets) ==
    LET p == target_iter(tl, performers)
    IN  IF p.panic # "" THEN ActPanic(tl, p.panic)
        ELSE LET total == total_attack(tl, p.refs, 1, 0)
                 t == target_iter(tl, targets)
             IN  IF t.panic # "" THEN ActPanic(tl, t.panic)
                 ELSE IF Len(t.refs) > 0
                      THEN Acted(damage_each(tl, t.refs, 1, total \div Len(t.refs)))
                      ELSE Acted(tl)

\* Actions: [kind, amount]
DirectAttack == [kind |-> "DirectAttack", amount |-> 0]
Heal(a) == [kind |-> "Heal", amount |-> a]
Skip == [kind |-> "Skip", amount |-> 0]
Sacrifice(a) == [kind |-> "Sacrifice", amount |-> a]
Drain(a) == [kind |-> "Drain", amount |-> a]
SelfDestruct == [kind |-> "SelfDestruct", amount |-> 0]
AreaAttack == [kind |-> "AreaAttack", amount |-> 0]

\* Context::new
Context(tl, performers, targets) ==
    [team_list |-> tl, performers |-> performers, targets |-> targets]

\* action.act(context), dispatched on the action the callback boxed
act(action, context) ==
    LET tl == context.team_list
        performers == context.performers
        targets == context.targets
    IN  CASE action.kind = "DirectAttack" -> DirectAttack_act(tl, performers, targets)
          [] action.kind = "Heal" -> Heal_act(action.amount, tl, performers, targets)
          [] action.kind = "Skip" -> Skip_act(tl, performers, targets)
          [] action.kind = "Sacrifice" ->
                Sacrifice_act(action.amount, tl, performers, targets)
          [] action.kind = "Drain" -> Drain_act(action.amount, tl, performers, targets)
          [] action.kind = "SelfDestruct" -> SelfDestruct_act(tl, performers, targets)
          [] OTHER -> AreaAttack_act(tl, performers, targets)

---------------------------------------------------------------------------
(* Turn system and battle *)

\* What the decision callback returns: (action, performers, targets)
Choice(a, p, t) == [action |-> a, performers |-> p, targets |-> t]
NoChoice == [action |-> "", performers |-> "", targets |-> ""]

\* One step of a turn: the team list and suggested performer it works on
\* and, for the callback and the action, the callback's return value.
Entry(step, tl, sp, choice) ==
    [step |-> step, teams |-> tl, performer |-> sp, choice |-> choice]

\* Result of a play_turn call. state is the Battle state after the call;
\* panic is "" when the call returned.
Outcome(tn, sp, tl, st, panic, callbacks, acts, log) ==
    [turn_number |-> tn, suggested_performer |-> sp, team_list |-> tl,
     state |-> st, panic |-> panic, callbacks |-> callbacks, acts |-> acts,
     log |-> log]

\* Mutant: a battle under way passes for finished
is_finished_loose(st) == st # "Preparating"

\* Battle::is_finished
is_finished(st) == st = "Finished"

\* Mutant: the counter wraps instead of failing
count_turn_wrapping(tn) == [some |-> TRUE, val |-> (tn + 1) % (U64_MAX + 1)]

\* Mutant: the counter advances by two
count_turn_by_two(tn) == checked_add(tn, 2)

\* Step 1 of a turn: turn_number.checked_add(1)
count_turn(tn) == checked_add(tn, 1)

\* Mutant: an unresolvable suggested performer is let through
resolve_performer_lenient(tl, sp) == ""

\* Step 2 of a turn: the panic raised while resolving the suggested
\* performer, "" when there is none to resolve or it resolves.
resolve_performer(tl, sp) ==
    IF ~sp.some THEN ""
    ELSE IF ~InRange(tl, sp.team_id) THEN "requested team was not found"
    ELSE IF ~InRange(tl[sp.team_id + 1], sp.member_id)
         THEN "requested member was not found"
         ELSE ""

\* Mutant: the two descriptors change places
setup_action_swapped(tl, choice) == Context(tl, choice.targets, choice.performers)

\* Steps 3 and 4 of a turn: the callback's answer is handed to Context::new
\* together with the team list, and the action acts on that context.
setup_action(tl, choice) == Context(tl, choice.performers, choice.targets)

\* Mutant: the end condition is read the wrong way round
end_of_turn_inverted(t, sp, ec, teams, criteria, log) ==
    LET log5 == Append(log, Entry("end_condition", teams, sp, NoChoice))
    IN  IF ~battle_should_end(teams, ec)
        THEN Outcome(t, sp, teams, "Finished", "", 1, 1, log5)
        ELSE Outcome(t, suggest_next_performer(sp, teams, criteria), teams,
                     "InProgress", "", 1, 1,
                     Append(log5, Entry("search", teams, sp, NoChoice)))

\* Mutant: the search runs before the end condition is looked at
end_of_turn_searches_first(t, sp, ec, teams, criteria, log) ==
    LET log5 == Append(log, Entry("end_condition", teams, sp, NoChoice))
        next == suggest_next_performer(sp, teams, criteria)
    IN  IF battle_should_end(teams, ec)
        THEN Outcome(t, next, teams, "Finished", "", 1, 1, log5)
        ELSE Outcome(t, next, teams, "InProgress", "", 1, 1,
                     Append(log5, Entry("search", teams, sp, NoChoice)))

\* Steps 5 and 6 of a turn, reached when the action returned: the end
\* condition on the team list the action left, then the search.
end_of_turn(t, sp, ec, teams, criteria, log) ==
    LET log5 == Append(log, Entry("end_condition", teams, sp, NoChoice))
    IN  IF battle_should_end(teams, ec)
        THEN Outcome(t, sp, teams, "Finished", "", 1, 1, log5)
        ELSE Outcome(t, suggest_next_performer(sp, teams, criteria), teams,
                     "InProgress", "", 1, 1,
                     Append(log5, Entry("search", teams, sp, NoChoice)))

\* Mutant: the search starts from the first performer the callback chose
TurnSystem_play_turn_from_chosen(tn, sp, ec, tl, st, criteria, choice) ==
    LET counted == count_turn(tn)
    IN  IF ~counted.some
        THEN Outcome(tn, sp, tl, st, "turn counter overflowed", 0, 0, <<>>)
        ELSE
        LET t == counted.val
            log1 == <<Entry("count", tl, sp, NoChoice)>>
            unresolved == resolve_performer(tl, sp)
        IN  IF unresolved # ""
            THEN Outcome(t, sp, tl, st, unresolved, 0, 0, log1)
            ELSE
            LET log2 == IF sp.some THEN Append(log1, Entry("resolve", tl, sp, NoChoice))
                                   ELSE log1
                log3 == Append(log2, Entry("callback", tl, sp, choice))
                context == setup_action(tl, choice)
                log4 == Append(log3, Entry("act", context.team_list, sp,
                                           Choice(choice.action, context.performers,
                                                  context.targets)))
                done == act(choice.action, context)
                chosen == target_iter(tl, choice.performers)
                from == IF chosen.panic = "" /\ chosen.refs # <<>>
                        THEN Some(chosen.refs[1]) ELSE sp
            IN  IF done.panic # ""
                THEN Outcome(t, sp, done.teams, st, done.panic, 1, 1, log4)
                ELSE LET ended == end_of_turn(t, sp, ec, done.teams, criteria, log4)
                     IN  IF ended.state = "Finished" THEN ended
                         ELSE [ended EXCEPT !.suggested_performer =
                                  suggest_next_performer(from, done.teams, criteria)]

\* TurnSystem::play_turn, called by a battle in state st; the callback
\* answers `choice`.
TurnSystem_play_turn(tn, sp, ec, tl, st, criteria, choice) ==
    LET counted == count_turn(tn)
    IN  IF ~counted.some
        THEN Outcome(tn, sp, tl, st, "turn counter overflowed", 0, 0, <<>>)
        ELSE
        LET t == counted.val
            log1 == <<Entry("count", tl, sp, NoChoice)>>
            unresolved == resolve_performer(tl, sp)
        IN  IF unresolved # ""
            THEN Outcome(t, sp, tl, st, unresolved, 0, 0, log1)
            ELSE
            LET log2 == IF sp.some THEN Append(log1, Entry("resolve", tl, sp, NoChoice))
                                   ELSE log1
                log3 == Append(log2, Entry("callback", tl, sp, choice))
                context == setup_action(tl, choice)
                log4 == Append(log3, Entry("act", context.team_list, sp,
                                           Choice(choice.action, context.performers,
                                                  context.targets)))
                done == act(choice.action, context)
            IN  IF done.panic # ""
                THEN Outcome(t, sp, done.teams, st, done.panic, 1, 1, log4)
                ELSE end_of_turn(t, sp, ec, done.teams, criteria, log4)

\* Mutant: the turn is counted before the state is looked at
Battle_play_turn_counts(tn, sp, ec, tl, st, criteria, choice, log) ==
    IF is_finished(st)
    THEN Outcome(saturating_add(tn, 1), sp, tl, st, "", 0, 0, log)
    ELSE TurnSystem_play_turn(tn, sp, ec, tl, st, criteria, choice)

\* Mutant: no early return on a finished battle
Battle_play_turn_unguarded(tn, sp, ec, tl, st, criteria, choice, log) ==
    TurnSystem_play_turn(tn, sp, ec, tl, st, criteria, choice)

\* Battle::play_turn
Battle_play_turn(tn, sp, ec, tl, st, criteria, choice, log) ==
    IF is_finished(st)
    THEN Outcome(tn, sp, tl, st, "", 0, 0, log)
    ELSE TurnSystem_play_turn(tn, sp, ec, tl, st, criteria, choice)

\* Mutant: the flag is left as it was
Battle_set_completed_noop(st) == st

\* Battle::set_completed
Battle_set_completed(st) == "Finished"

\* Battle::take_teams
Battle_take_teams(tl) == [some |-> TRUE, teams |-> tl]
NotReturned == [some |-> FALSE, teams |-> <<>>]

---------------------------------------------------------------------------
(* Inputs *)

\* A member as the examples build it: current health and the statistics
Member(h, ref, atk) == [health |-> h, reference_health |-> ref, attack |-> atk]

\* Members a battle starts with: dead or at full health, attack 1
InitMembers == {Member(h, MaxHealth, 1) : h \in {0, MaxHealth}}

\* Team lists a battle starts with, by shape (members per team)
InitShapes == {<<>>, <<0, 1>>, <<2>>, <<1, 1>>, <<2, 1>>}

TeamListsOfShape(shape, members) ==
    {tl \in [1..Len(shape) -> UNION {[1..shape[t] -> members] : t \in 1..Len(shape)}] :
        \A t \in 1..Len(shape) : Len(tl[t]) = shape[t]}

InitTeamLists == UNION {TeamListsOfShape(s, InitMembers) : s \in InitShapes}

EndConditions == {"LastMemberStanding", "LastTeamStanding"}

\* Policies a battle may be built with
InitCriteria ==
    {CriteriaNone, CriteriaCycleAlive, CriteriaConstant(MemberIdentifier(1, 0)),
     CriteriaCycleWith("always")}

\* Answers of the decision callback
ChoiceActions ==
    {DirectAttack, Skip, SelfDestruct, AreaAttack}
        \cup {Heal(a) : a \in 1..MaxAmount}
        \cup {Sacrifice(a) : a \in 1..MaxAmount}
        \cup {Drain(a) : a \in 1..MaxAmount}

\* (performers, targets) descriptors the callback answers with; on smaller
\* rosters some of them denote no member
ChoiceTargets ==
    {<<Single(MemberIdentifier(0, 0)), Single(MemberIdentifier(1, 0))>>,
     <<Single(MemberIdentifier(1, 0)), Single(MemberIdentifier(0, 0))>>,
     <<FullTeam(0), Single(MemberIdentifier(0, 1))>>,
     <<DiscreteMultiple(<<MemberIdentifier(0, 0), MemberIdentifier(1, 1),
                          MemberIdentifier(0, 0)>>), All>>}

Choices ==
    {Choice(a, pt[1], pt[2]) : a \in ChoiceActions, pt \in ChoiceTargets}

---------------------------------------------------------------------------
(* The battle as a state machine *)

NoProbe == [fn |-> "", result |-> FALSE]

\* No Target under evaluation
NoDescriptor == [kind |-> "", ids |-> <<>>, team_id |-> 0]

\* Mutant: the builder starts without a policy
Builder_new_no_policy(tl, ec) ==
    [team_list |-> tl, turn_number |-> 0, suggested_performer |-> Some(zeroed),
     end_condition |-> ec, state |-> "Preparating",
     suggested_performer_criteria |-> CriteriaNone]

\* Builder::new: the battle the builder starts from
Builder_new(tl, ec) ==
    [team_list |-> tl, turn_number |-> 0, suggested_performer |-> Some(zeroed),
     end_condition |-> ec, state |-> "Preparating",
     suggested_performer_criteria |-> CriteriaCycleAlive]

\* Builder::set_suggested_performer_criteria
set_suggested_performer_criteria(builder, criteria) ==
    [builder EXCEPT !.suggested_performer_criteria = criteria]

\* Builder::build
build(builder) == builder

\* The policy a builder is given: {} when set_suggested_performer_criteria
\* is not called, {criteria} when it is
BuilderArgs(custom) == [criteria |-> custom]
NoBuilder == BuilderArgs({})

\* Builder::new(..).build() or
\* Builder::new(..).set_suggested_performer_criteria(..).build()
Built(tl, ec, custom) ==
    build(IF custom = {} THEN Builder_new(tl, ec)
          ELSE set_suggested_performer_criteria(Builder_new(tl, ec),
                                                CHOOSE c \in custom : TRUE))

\* The battle is the one `battle` describes, before any call on it
Fresh(battle) ==
    /\ team_list = battle.team_list
    /\ end_condition = battle.end_condition
    /\ suggested_performer_criteria = battle.suggested_performer_criteria
    /\ turn_number = battle.turn_number
    /\ suggested_performer = battle.suggested_performer
    /\ state = battle.state
    /\ panicked = ""
    /\ running = FALSE
    /\ returned = NotReturned
    /\ callback_calls = 0
    /\ act_calls = 0
    /\ last_op = "build"
    /\ forced = FALSE
    /\ run_turns = 0
    /\ turn_log = <<>>
    /\ probe = NoProbe
    /\ descriptor = NoDescriptor

Init ==
    \E tl \in InitTeamLists, ec \in EndConditions,
       custom \in {{}} \cup {{c} : c \in InitCriteria} :
        /\ Fresh(Built(tl, ec, custom))
        /\ builder_args = BuilderArgs(custom)
        /\ logging = FALSE
        /\ U64_MAX = MaxU64

Config == <<end_condition, suggested_performer_criteria, logging, probe, descriptor,
           U64_MAX, builder_args>>

\* The battle can be called: it has not panicked and has not been consumed
Callable == panicked = "" /\ ~returned.some

\* The effect of one Battle::play_turn call on the battle and the counters
ApplyPlayTurn(out) ==
    /\ turn_number' = out.turn_number
    /\ suggested_performer' = out.suggested_performer
    /\ team_list' = out.team_list
    /\ state' = out.state
    /\ panicked' = out.panic
    /\ callback_calls' = callback_calls + out.callbacks
    /\ act_calls' = act_calls + out.acts
    /\ turn_log' = IF logging THEN out.log ELSE turn_log

\* battle.play_turn()
PlayTurn ==
    /\ Callable /\ ~running
    /\ \E choice \in Choices :
          ApplyPlayTurn(Battle_play_turn(turn_number, suggested_performer, end_condition,
                                         team_list, state, suggested_performer_criteria,
                                         choice, turn_log))
    /\ last_op' = IF is_finished(state) THEN "play_turn on Finished" ELSE "play_turn"
    /\ UNCHANGED <<Config, running, returned, forced, run_turns>>

\* battle.set_completed()
SetCompleted ==
    /\ Callable /\ ~running
    /\ state' = Battle_set_completed(state)
    /\ forced' = TRUE
    /\ last_op' = "set_completed"
    /\ UNCHANGED <<Config, team_list, turn_number, suggested_performer, panicked, running,
                   returned, callback_calls, act_calls, run_turns, turn_log>>

\* battle.run(): one iteration of its loop (the first one enters run); the
\* iteration that finds the battle finished breaks and returns take_teams().
Run ==
    /\ Callable
    /\ \E choice \in Choices :
          LET out == Battle_play_turn(turn_number, suggested_performer, end_condition,
                                      team_list, state, suggested_performer_criteria,
                                      choice, turn_log)
          IN  /\ ApplyPlayTurn(out)
              /\ run_turns' = run_turns + out.callbacks
              /\ IF out.panic = "" /\ is_finished(out.state)
                 THEN /\ running' = FALSE
                      /\ returned' = Battle_take_teams(out.team_list)
                 ELSE /\ running' = TRUE
                      /\ returned' = returned
    /\ last_op' = "run"
    /\ UNCHANGED <<Config, forced>>

\* battle.take_teams()
TakeTeams ==
    /\ Callable /\ ~running
    /\ returned' = Battle_take_teams(team_list)
    /\ last_op' = "take_teams"
    /\ UNCHANGED <<Config, team_list, turn_number, suggested_performer, state, panicked,
                   running, callback_calls, act_calls, forced, run_turns, turn_log>>

Next == PlayTurn \/ SetCompleted \/ Run \/ TakeTeams

Spec == Init /\ [][Next]_vars

---------------------------------------------------------------------------
(* The battle with the steps of each turn recorded *)

\* Team 0 with a living and a dead member against a team of one
LogTeamLists ==
    {<<<<Member(MaxHealth, MaxHealth, 1), Member(0, MaxHealth, 1)>>,
       <<Member(MaxHealth, MaxHealth, 1)>>>>}

InitLog ==
    /\ team_list \in LogTeamLists
    /\ end_condition \in EndConditions
    /\ suggested_performer_criteria \in InitCriteria
    /\ turn_number = 0
    /\ suggested_performer = Some(zeroed)
    /\ state = "Preparating"
    /\ panicked = ""
    /\ running = FALSE
    /\ returned = NotReturned
    /\ callback_calls = 0
    /\ act_calls = 0
    /\ last_op = "build"
    /\ forced = FALSE
    /\ run_turns = 0
    /\ logging = TRUE
    /\ turn_log = <<>>
    /\ probe = NoProbe
    /\ descriptor = NoDescriptor
    /\ U64_MAX = MaxU64
    /\ builder_args = BuilderArgs({suggested_performer_criteria})

\* The battle stepped turn by turn by its owner
NextLog == PlayTurn \/ SetCompleted

SpecLog == InitLog /\ [][NextLog]_vars

---------------------------------------------------------------------------
(* The end-condition evaluator on its own *)

\* Every team list of at most MaxTeams teams of at most MaxMembers members
\* that are dead or at full health
EvalTeams == UNION {[1..n -> InitMembers] : n \in 0..MaxMembers}
EvalTeamLists == UNION {[1..n -> EvalTeams] : n \in 0..MaxTeams}

InitEnd ==
    /\ team_list \in EvalTeamLists
    /\ end_condition \in EndConditions
    /\ suggested_performer_criteria = CriteriaCycleAlive
    /\ turn_number = 0
    /\ suggested_performer = Some(zeroed)
    /\ state = "Preparating"
    /\ panicked = ""
    /\ running = FALSE
    /\ returned = NotReturned
    /\ callback_calls = 0
    /\ act_calls = 0
    /\ last_op = "build"
    /\ forced = FALSE
    /\ run_turns = 0
    /\ logging = FALSE
    /\ turn_log = <<>>
    /\ probe = NoProbe
    /\ descriptor = NoDescriptor
    /\ U64_MAX = MaxU64
    /\ builder_args = NoBuilder

\* self.battle_should_end(team_list)
EvalEnd ==
    /\ probe' = [fn |-> "battle_should_end",
                 result |-> battle_should_end(team_list, end_condition)]
    /\ UNCHANGED <<team_list, turn_number, suggested_performer, end_condition, state,
                   suggested_performer_criteria, panicked, running, returned,
                   callback_calls, act_calls, last_op, forced, run_turns, logging,
                   turn_log, descriptor, U64_MAX, builder_args>>

NextEnd == EvalEnd

SpecEnd == InitEnd /\ [][NextEnd]_vars

---------------------------------------------------------------------------
(* The duel of the interactive example: two teams of one member, run() *)

\* Target::None of the example, for a lone team; the resolver of action.rs
\* has no such variant, and the descriptor denotes no member, as a
\* DiscreteMultiple without identifiers does. Never returned in a duel.
TargetNone == DiscreteMultiple(<<>>)

\* action_choice of the interactive example: DirectAttack by the suggested
\* performer (the first member when none is suggested) on the last member of
\* the last team that is not the performer's
action_choice(tl, hint_performer) ==
    LET hint == unwrap_or_default(hint_performer)
        others == SelectSeq(Roster(tl), LAMBDA id : id.team_id # hint.team_id)
        chosen == IF others = <<>> THEN TargetNone ELSE Single(others[Len(others)])
    IN  Choice(DirectAttack, Single(hint), chosen)

\* The two players of the example and players of small health and attack,
\* all of them alive and with a positive attack
Player1 == Member(100, 100, 15)
Player2 == Member(150, 150, 12)
DuelMembers == {Player1, Player2} \cup {Member(h, h, a) : h \in 1..MaxHealth, a \in 1..MaxHealth}

\* Integer widths of the duels: the scale of the example, and the scale at
\* which the health of a small player is the largest integer
DuelWidths == {ExampleU64, MaxHealth}

InitDuel ==
    \E first \in DuelMembers, second \in DuelMembers, width \in DuelWidths :
        /\ \A member \in {first, second} :
               /\ member.health <= width
               /\ member.attack <= width
        /\ Fresh(Built(<<<<first>>, <<second>>>>, "LastTeamStanding", {}))
        /\ builder_args = BuilderArgs({})
        /\ logging = FALSE
        /\ U64_MAX = width

\* battle.run() with action_choice as the decision callback: one iteration
\* of its loop
DuelRun ==
    /\ Callable
    /\ \E out \in {Battle_play_turn(turn_number, suggested_performer, end_condition,
                                      team_list, state, suggested_performer_criteria,
                                      action_choice(team_list, suggested_performer),
                                      turn_log)} :
           /\ ApplyPlayTurn(out)
           /\ run_turns' = run_turns + out.callbacks
           /\ IF out.panic = "" /\ is_finished(out.state)
              THEN /\ running' = FALSE
                   /\ returned' = Battle_take_teams(out.team_list)
              ELSE /\ running' = TRUE
                   /\ returned' = returned
    /\ last_op' = "run"
    /\ UNCHANGED <<Config, forced>>

NextDuel == DuelRun

\* run() is sequential code: its loop goes on until it breaks or aborts
SpecDuel == InitDuel /\ [][NextDuel]_vars /\ WF_vars(DuelRun)

---------------------------------------------------------------------------
(* The performer-suggestion search on its own *)

\* Last performers handed to the search: none and the identifiers of the
\* largest team list; on a smaller list some of them denote no team or no
\* member
SearchPerformers ==
    {None} \cup {Some(MemberIdentifier(t, m)) :
                    t \in 0..(MaxTeams - 1), m \in 0..(MaxMembers - 1)}

\* Cyclic policies: the fixed test, the same test as a closure, and a
\* closure that looks at the identifier only
SearchCriteria ==
    {CriteriaCycleAlive, CriteriaCycleWith("alive"), CriteriaCycleWith("second_member")}

InitSearch ==
    /\ team_list \in EvalTeamLists
    /\ end_condition = "LastTeamStanding"
    /\ suggested_performer_criteria \in SearchCriteria
    /\ turn_number = 0
    /\ suggested_performer \in SearchPerformers
    /\ state = "Preparating"
    /\ panicked = ""
    /\ running = FALSE
    /\ returned = NotReturned
    /\ callback_calls = 0
    /\ act_calls = 0
    /\ last_op = "build"
    /\ forced = FALSE
    /\ run_turns = 0
    /\ logging = FALSE
    /\ turn_log = <<>>
    /\ probe = NoProbe
    /\ descriptor = NoDescriptor
    /\ U64_MAX = MaxU64
    /\ builder_args = NoBuilder

\* suggested_performer_criteria.search(self.suggested_performer, team_list)
EvalSearch ==
    /\ probe' = [fn |-> "search",
                 result |-> search_examined(suggested_performer_criteria,
                                            suggested_performer, team_list)]
    /\ UNCHANGED <<team_list, turn_number, suggested_performer, end_condition, state,
                   suggested_performer_criteria, panicked, running, returned,
                   callback_calls, act_calls, last_op, forced, run_turns, logging,
                   turn_log, descriptor, U64_MAX, builder_args>>

NextSearch == EvalSearch

SpecSearch == InitSearch /\ [][NextSearch]_vars

---------------------------------------------------------------------------
(* The CycleAlive search fed with its own results *)

\* Last performers the feeding starts from: none, the first and the last
\* member of the roster (play_turn resolves the suggested performer before it
\* searches, so it denotes a member of the list)
CycleStarts(tl) ==
    {None} \cup {Some(Roster(tl)[i]) : i \in {1, Len(Roster(tl))} \cap 1..Len(Roster(tl))}

\* The members with health, in roster order
Living(tl) == SelectSeq(Roster(tl), LAMBDA id : health(tl, id) > 0)

InitCycle ==
    /\ team_list \in EvalTeamLists
    /\ end_condition = "LastTeamStanding"
    /\ suggested_performer_criteria = CriteriaCycleAlive
    /\ turn_number = 0
    /\ suggested_performer \in CycleStarts(team_list)
    /\ state = "Preparating"
    /\ panicked = ""
    /\ running = FALSE
    /\ returned = NotReturned
    /\ callback_calls = 0
    /\ act_calls = 0
    /\ last_op = "build"
    /\ forced = FALSE
    /\ run_turns = 0
    /\ logging = FALSE
    /\ turn_log = <<>>
    /\ probe = [fn |-> "cycle", start |-> suggested_performer]
    /\ descriptor = NoDescriptor
    /\ U64_MAX = MaxU64
    /\ builder_args = NoBuilder

\* self.suggested_performer = criteria.search(self.suggested_performer,
\* team_list) on an unchanged team list, the results recorded in turn_log;
\* followed for one cycle of the living members and one step more
FeedBack ==
    /\ Len(turn_log) <= Len(Living(team_list))
    /\ LET found == suggest_next_performer(suggested_performer, team_list,
                                           suggested_performer_criteria)
       IN  /\ suggested_performer' = found
           /\ turn_log' = Append(turn_log, found)
    /\ UNCHANGED <<team_list, turn_number, end_condition, state,
                   suggested_performer_criteria, panicked, running, returned,
                   callback_calls, act_calls, last_op, forced, run_turns, logging,
                   probe, descriptor, U64_MAX, builder_args>>

NextCycle == FeedBack

SpecCycle == InitCycle /\ [][NextCycle]_vars

---------------------------------------------------------------------------
(* The target resolver on its own *)

\* Every team list of at most MaxTeams teams of at most MaxMembers members;
\* the resolver does not look at the members
TargetTeams == UNION {[1..n -> {Member(MaxHealth, MaxHealth, 1)}] : n \in 0..MaxMembers}
TargetTeamLists == UNION {[1..n -> TargetTeams] : n \in 0..MaxTeams}

\* Identifiers of the largest team list; on a smaller list some of them
\* denote no team or no member
TargetIds ==
    {MemberIdentifier(t, m) : t \in 0..(MaxTeams - 1), m \in 0..(MaxMembers - 1)}

\* Identifiers a DiscreteMultiple is built from
ListedIds ==
    {MemberIdentifier(0, 0), MemberIdentifier(0, 1), MemberIdentifier(1, 0),
     MemberIdentifier(2, 1)}

Targets ==
    {Single(id) : id \in TargetIds}
        \cup {DiscreteMultiple(ids) : ids \in UNION {[1..n -> ListedIds] : n \in 0..MaxIds}}
        \cup {FullTeam(t) : t \in 0..(MaxTeams - 1)}
        \cup {All}

InitTargets ==
    /\ team_list \in TargetTeamLists
    /\ end_condition = "LastTeamStanding"
    /\ suggested_performer_criteria = CriteriaCycleAlive
    /\ turn_number = 0
    /\ suggested_performer = Some(zeroed)
    /\ state = "Preparating"
    /\ panicked = ""
    /\ running = FALSE
    /\ returned = NotReturned
    /\ callback_calls = 0
    /\ act_calls = 0
    /\ last_op = "build"
    /\ forced = FALSE
    /\ run_turns = 0
    /\ logging = FALSE
    /\ turn_log = <<>>
    /\ probe = NoProbe
    /\ descriptor \in Targets
    /\ U64_MAX = MaxU64
    /\ builder_args = NoBuilder

\* context.performers() / context.targets(): self.target_iter(descriptor)
EvalTargets ==
    /\ probe' = [fn |-> "target_iter", result |-> target_iter(team_list, descriptor)]
    /\ UNCHANGED <<team_list, turn_number, suggested_performer, end_condition, state,
                   suggested_performer_criteria, panicked, running, returned,
                   callback_calls, act_calls, last_op, forced, run_turns, logging,
                   turn_log, descriptor, U64_MAX, builder_args>>

NextTargets == EvalTargets

SpecTargets == InitTargets /\ [][NextTargets]_vars

---------------------------------------------------------------------------
(* The member capability and the catalogue actions on their own *)

\* Members an action is applied to: health at most the reference health,
\* the reference health below or at the largest integer, attack 1 or the
\* largest integer
ActMembers ==
    UNION {{Member(h, ref, atk) : h \in 0..ref, atk \in {1, MaxU64}} :
              ref \in {MaxHealth, MaxU64}}

\* Second members of a team: at full health or dead
ActSeconds == {Member(h, MaxHealth, 1) : h \in {0, MaxHealth}}

\* One member, one member per team, and a team of two against a team of one
ActTeamLists ==
    {<<<<a>>>> : a \in ActMembers}
        \cup {<<<<a>>, <<b>>>> : a \in ActMembers, b \in ActMembers}
        \cup {<<<<a, b>>, <<c>>>> : a \in ActMembers, b \in ActSeconds, c \in ActMembers}

\* A member at 90 of 100 with attack 10 against a team of three
ExampleTeamList ==
    <<<<Member(90, 100, 10)>>,
      <<Member(100, 100, 12), Member(50, 100, 12), Member(2, 100, 12)>>>>

ExampleHeal == Heal(25)

ActActions ==
    {DirectAttack, Skip, SelfDestruct, AreaAttack, ExampleHeal}
        \cup {Heal(a) : a \in {0, 1, MaxU64}}
        \cup {Sacrifice(a) : a \in {0, 1, MaxU64}}
        \cup {Drain(a) : a \in {0, 1, MaxU64}}

\* Performer descriptors, one of them denoting nobody
ActPerformers == {Single(MemberIdentifier(0, 0)), FullTeam(0), All, DiscreteMultiple(<<>>)}

\* Target descriptors; on the smaller lists some of them denote no member
ActTargets ==
    {Single(MemberIdentifier(0, 0)), Single(MemberIdentifier(1, 0)), FullTeam(1), All,
     DiscreteMultiple(<<>>),
     DiscreteMultiple(<<MemberIdentifier(0, 1), MemberIdentifier(1, 0)>>)}

InitAct ==
    /\ \/ team_list \in ActTeamLists /\ U64_MAX = MaxU64
       \/ team_list = ExampleTeamList /\ U64_MAX = ExampleU64
    /\ end_condition = "LastTeamStanding"
    /\ suggested_performer_criteria = CriteriaCycleAlive
    /\ turn_number = 0
    /\ suggested_performer = Some(zeroed)
    /\ state = "Preparating"
    /\ panicked = ""
    /\ running = FALSE
    /\ returned = NotReturned
    /\ callback_calls = 0
    /\ act_calls = 0
    /\ last_op = "build"
    /\ forced = FALSE
    /\ run_turns = 0
    /\ logging = FALSE
    /\ turn_log = <<>>
    /\ probe = NoProbe
    /\ descriptor = NoDescriptor
    /\ builder_args = NoBuilder

\* member.damage(d) on one member of the list, for every d of the integer
\* type
EvalDamage ==
    /\ probe = NoProbe
    /\ \E i \in 1..Len(Roster(team_list)), d \in 0..U64_MAX :
          /\ team_list' = damage(team_list, Roster(team_list)[i], d)
          /\ probe' = [fn |-> "damage", id |-> Roster(team_list)[i], damage |-> d,
                       before |-> team_list]
    /\ UNCHANGED <<turn_number, suggested_performer, end_condition, state,
                   suggested_performer_criteria, panicked, running, returned,
                   callback_calls, act_calls, last_op, forced, run_turns, logging,
                   turn_log, descriptor, U64_MAX, builder_args>>

\* action.act(Context::new(team_list, performers, targets))
EvalAct ==
    /\ probe = NoProbe
    /\ \E action \in ActActions, performers \in ActPerformers, targets \in ActTargets :
          /\ action.amount <= U64_MAX
          /\ LET out == act(action, Context(team_list, performers, targets))
             IN  /\ team_list' = out.teams
                 /\ panicked' = out.panic
          /\ probe' = [fn |-> "act", action |-> action, performers |-> performers,
                       targets |-> targets, before |-> team_list]
    /\ UNCHANGED <<turn_number, suggested_performer, end_condition, state,
                   suggested_performer_criteria, running, returned,
                   callback_calls, act_calls, last_op, forced, run_turns, logging,
                   turn_log, descriptor, U64_MAX, builder_args>>

NextAct == EvalDamage \/ EvalAct

SpecAct == InitAct /\ [][NextAct]_vars

---------------------------------------------------------------------------
(* Properties *)

\* The step is a call of play_turn(), directly or from the loop of run()
PlayTurnEntered == last_op' \in {"play_turn", "play_turn on Finished", "run"}

\* The step is a play_turn() that ran a turn to its end
ExecutedTurn == callback_calls' = callback_calls + 1 /\ panicked' = ""

\* C1: play_turn() on a Finished battle changes nothing: team list (every
\* member's health), turn counter, suggested performer and state stay as they
\* were, and neither the callback nor an action is invoked.
C1_PlayTurnOnFinishedIsNoOp ==
    [][(state = "Finished" /\ PlayTurnEntered) =>
          /\ UNCHANGED <<team_list, turn_number, suggested_performer, state>>
          /\ UNCHANGED <<callback_calls, act_calls>>
          /\ panicked' = ""]_vars

\* A battle finished by its end condition on which play_turn() was called again
W_C1_PlayTurnCalledOnFinished ==
    /\ last_op = "play_turn on Finished"
    /\ ~forced
    /\ callback_calls > 0

\* C2: a play_turn() that executes a turn leaves the state Finished exactly
\* when the end condition holds on the team list the action left, and
\* InProgress otherwise; so while the state is InProgress the end condition is
\* false on the current team list.
C2_StateFollowsEndCondition ==
    /\ [][ExecutedTurn =>
            state' = IF battle_should_end(team_list', end_condition)
                     THEN "Finished" ELSE "InProgress"]_vars
    /\ []((panicked = "" /\ state = "InProgress") =>
            ~battle_should_end(team_list, end_condition))

\* A turn that changed a health and finished the battle by its end condition
W_C2_TurnFinishedBattle ==
    /\ last_op = "play_turn"
    /\ panicked = ""
    /\ ~forced
    /\ state = "Finished"
    /\ turn_number >= 2

Rank(st) == CASE st = "Preparating" -> 0 [] st = "InProgress" -> 1 [] OTHER -> 2

\* C3: the lifecycle flag only moves forward along Preparating, InProgress,
\* Finished: an executed turn never leaves it Preparating, and once Finished
\* it stays Finished under play_turn(), run() and set_completed().
C3_LifecycleMovesForward ==
    [][/\ Rank(state') >= Rank(state)
       /\ (ExecutedTurn => state' # "Preparating")
       /\ (state = "Finished" => state' = "Finished")]_vars

\* play_turn() called after set_completed() on a battle whose end condition
\* is false: the battle stays Finished
W_C3_StaysFinished ==
    /\ forced
    /\ last_op = "play_turn on Finished"
    /\ state = "Finished"
    /\ ~battle_should_end(team_list, end_condition)

\* C4: set_completed() leaves team list, turn counter and suggested performer
\* as they were, and from then on no play_turn() or run() executes a turn:
\* the callback is not invoked again and the team list stays as it was.
C4_SetCompletedStopsTurns ==
    [][/\ (last_op' = "set_completed" =>
             /\ UNCHANGED <<team_list, turn_number, suggested_performer>>
             /\ state' = "Finished")
       /\ (forced =>
             /\ UNCHANGED <<team_list, turn_number, suggested_performer>>
             /\ UNCHANGED <<callback_calls, act_calls>>)]_vars

\* set_completed() called on a battle under way, then run() returned
W_C4_RunAfterSetCompleted ==
    /\ forced
    /\ last_op = "run"
    /\ returned.some
    /\ turn_number > 0
    /\ ~battle_should_end(team_list, end_condition)

\* run() has returned
RunReturned == last_op = "run" /\ returned.some

\* C5 as stated: run() returns only when Finished, with the team list the last
\* executed turn left; without set_completed() the end condition holds on the
\* returned list, held after no earlier turn of the run, and the turn counter
\* equals the number of turns run() executed.
C5_Original_CounterEqualsRunTurns ==
    /\ (RunReturned => state = "Finished" /\ returned.teams = team_list)
    /\ ((RunReturned /\ ~forced) =>
            /\ battle_should_end(returned.teams, end_condition)
            /\ turn_number = run_turns)
    /\ ((running /\ panicked = "") => ~battle_should_end(team_list, end_condition))

\* C5, amended: as stated, but the turn counter equals the number of turns
\* executed on the battle in all, those played by play_turn() before run()
\* included; the turns run() executed are among them.
C5_RunReturnsFinalTeams ==
    /\ (RunReturned => state = "Finished" /\ returned.teams = team_list)
    /\ ((RunReturned /\ ~forced) =>
            /\ battle_should_end(returned.teams, end_condition)
            /\ turn_number = callback_calls
            /\ run_turns <= turn_number)
    /\ ((running /\ panicked = "") => ~battle_should_end(team_list, end_condition))

\* run() returned after two turns of its own that followed one play_turn()
W_C5_RunReturnedAfterTurns ==
    /\ RunReturned
    /\ ~forced
    /\ run_turns = 2
    /\ turn_number = 3

Steps(log) == [i \in 1..Len(log) |-> log[i].step]

\* C6 as stated: every executed turn goes through all six steps, each once:
\* count, resolve, callback, act, end condition, search.
C6_Original_SixStepsEveryTurn ==
    (panicked = "" /\ turn_log # <<>>) =>
        Steps(turn_log) =
            <<"count", "resolve", "callback", "act", "end_condition", "search">>

\* C6, amended: an executed turn goes through count, resolve (only when a
\* performer is suggested), callback, act, end condition and search (only when
\* the end condition is false), in this order and each once. The callback
\* sees the team list and suggested performer of the start of the turn, the
\* action starts from the team list the callback saw with the descriptors the
\* callback returned, and end condition and search work on the list it left.
C6_TurnStepsInOrder ==
    [][ExecutedTurn =>
        LET log == turn_log'
            cb == IF suggested_performer.some THEN 3 ELSE 2
            answer == log[cb].choice
        IN  /\ Steps(log) =
                  <<"count">>
                  \o (IF suggested_performer.some THEN <<"resolve">> ELSE <<>>)
                  \o <<"callback", "act", "end_condition">>
                  \o (IF state' = "Finished" THEN <<>> ELSE <<"search">>)
            /\ turn_number' = turn_number + 1
            /\ log[cb].teams = team_list
            /\ log[cb].performer = suggested_performer
            /\ log[cb + 1].teams = log[cb].teams
            /\ log[cb + 1].choice = answer
            /\ team_list' =
                  act(answer.action,
                      Context(team_list, answer.performers, answer.targets)).teams
            /\ log[cb + 2].teams = team_list'
            /\ (state' # "Finished" =>
                  /\ log[cb + 3].teams = team_list'
                  /\ log[cb + 3].performer = suggested_performer
                  /\ suggested_performer' =
                        search(suggested_performer_criteria, suggested_performer,
                               team_list'))]_vars

\* A second turn under way: the first one ran all six steps, a health changed
W_C6_FullTurnLogged ==
    /\ panicked = ""
    /\ Steps(turn_log) =
          <<"count", "resolve", "callback", "act", "end_condition", "search">>
    /\ turn_log[4].teams # team_list
    /\ turn_number = 2

UnresolvedPanics == {"requested team was not found", "requested member was not found"}

\* C7: play_turn() on a battle whose suggested performer is Some(id) with no
\* such team or member aborts before the callback is invoked and before any
\* member is mutated; the call does not return a state.
C7_UnresolvablePerformerIsFatal ==
    [][(/\ state # "Finished"
        /\ PlayTurnEntered
        /\ suggested_performer.some
        /\ ~MemberExists(team_list, unwrap_or_default(suggested_performer))) =>
          /\ panicked' # ""
          /\ (turn_number < MaxU64 => panicked' \in UnresolvedPanics)
          /\ UNCHANGED <<team_list, state, suggested_performer>>
          /\ UNCHANGED <<callback_calls, act_calls>>]_vars

\* The abort after one executed turn: the policy suggested a missing team
W_C7_AbortedOnMissingTeam ==
    /\ panicked = "requested team was not found"
    /\ callback_calls = 1
    /\ turn_number = 2

\* C8: the turn counter starts at 0, goes up by exactly 1 on every play_turn()
\* that executes a turn, never goes down, is changed by nothing else, and
\* equals the number of turns executed so far.
C8_TurnCounterCountsTurns ==
    /\ [](last_op = "build" => turn_number = 0)
    /\ [](panicked = "" => turn_number = callback_calls)
    /\ [][/\ turn_number' \in {turn_number, turn_number + 1}
          /\ (ExecutedTurn => turn_number' = turn_number + 1)
          /\ (turn_number' # turn_number => (state # "Finished" /\ PlayTurnEntered))]_vars

\* Two turns executed, then set_completed() and a play_turn()
W_C8_CounterAfterTwoTurns ==
    /\ turn_number = 2
    /\ callback_calls = 2
    /\ forced
    /\ last_op = "play_turn on Finished"

\* C9: with the turn counter at the maximum of its width, play_turn() aborts:
\* the counter neither wraps nor moves, the callback is not invoked and no
\* member is mutated.
C9_CounterOverflowIsFatal ==
    [][(turn_number = MaxU64 /\ state # "Finished" /\ PlayTurnEntered) =>
          /\ panicked' = "turn counter overflowed"
          /\ UNCHANGED <<team_list, turn_number, state, suggested_performer>>
          /\ UNCHANGED <<callback_calls, act_calls>>]_vars

\* The abort on the turn after the last one the counter can hold
W_C9_AbortedOnOverflow ==
    /\ panicked = "turn counter overflowed"
    /\ turn_number = MaxU64
    /\ callback_calls = MaxU64

\* Members with health > 0, counted over the whole roster
AliveMembers(tl) ==
    {id \in {Roster(tl)[i] : i \in 1..Len(Roster(tl))} : health(tl, id) > 0}

\* C10: under LastMemberStanding the evaluator answers true exactly when
\* fewer than 2 members of the whole roster have health > 0, whatever the
\* health distribution and the shape of the team list, and leaves the team
\* list as it was.
C10_LastMemberStandingCountsAlive ==
    (probe.fn = "battle_should_end" /\ end_condition = "LastMemberStanding") =>
        probe.result = (Cardinality(AliveMembers(team_list)) < 2)

\* Evaluated on a roster with an empty team and exactly one living member,
\* the last one of the list
W_C10_OneAliveBehindEmptyTeam ==
    /\ probe.fn = "battle_should_end"
    /\ end_condition = "LastMemberStanding"
    /\ probe.result
    /\ Len(team_list) = 3
    /\ Len(team_list[1]) = 0
    /\ Len(team_list[3]) = 2
    /\ AliveMembers(team_list) = {MemberIdentifier(2, 1)}

\* Teams (0-based index) with at least one member of health > 0
AliveTeams(tl) ==
    {t \in 0..(Len(tl) - 1) : \E m \in 1..Len(tl[t + 1]) : tl[t + 1][m].health > 0}

\* C11: under LastTeamStanding the evaluator answers true exactly when fewer
\* than 2 teams have a member with health > 0; a team counts once however
\* many of its members are alive, and a team without members or with dead
\* members only does not count.
C11_LastTeamStandingCountsTeams ==
    (probe.fn = "battle_should_end" /\ end_condition = "LastTeamStanding") =>
        probe.result = (Cardinality(AliveTeams(team_list)) < 2)

\* Evaluated on a roster whose only living members are the two of one team,
\* between an empty team and a team of dead members
W_C11_TwoAliveInOneTeam ==
    /\ probe.fn = "battle_should_end"
    /\ end_condition = "LastTeamStanding"
    /\ probe.result
    /\ Len(team_list) = 3
    /\ Len(team_list[1]) = 0
    /\ Len(team_list[3]) = 2
    /\ AliveMembers(team_list) = {MemberIdentifier(1, 0), MemberIdentifier(1, 1)}


\* The members of team t (0-based) from member index `from` on, in index order
MembersFrom(tl, t, from) ==
    IF from >= Len(tl[t + 1]) THEN <<>>
    ELSE [i \in 1..(Len(tl[t + 1]) - from) |-> MemberIdentifier(t, from + i - 1)]

\* The members of the n teams that follow team t cyclically, from index 0
RECURSIVE TeamsAfter(_, _, _)
TeamsAfter(tl, t, n) ==
    IF n = 0 THEN <<>>
    ELSE TeamsAfter(tl, t, n - 1) \o MembersFrom(tl, (t + n) % Len(tl), 0)

\* The traversal after last performer (t, m) of an existing team t: the
\* members of t behind m, then teams t+1, ..., wrapping, up to team t-1
TraversalAfter(tl, t, m) == MembersFrom(tl, t, m + 1) \o TeamsAfter(tl, t, Len(tl) - 1)

\* The first identifier of seq whose member passes the test, as an Option
FirstWith(tl, seq, Test(_, _)) ==
    LET hits == {i \in 1..Len(seq) : Test(seq[i], tl[seq[i].team_id + 1][seq[i].member_id + 1])}
    IN  IF hits = {} THEN None
        ELSE Some(seq[CHOOSE i \in hits : \A j \in hits : i <= j])

IsAlive(id, member) == member.health > 0

\* The search has been evaluated under the given kind of policy
Searching(kind) == probe.fn = "search" /\ suggested_performer_criteria.kind = kind

\* The last performer the search starts from
LastPerformer == unwrap_or_default(suggested_performer)

\* C12: CycleAlive, given last performer (t, m), returns the first member with
\* health > 0 among the members of team t behind m, then the members of teams
\* t+1, t+2, ... from index 0, wrapping after the last team and ending with
\* team t-1; the last performer itself is never returned.
C12_CycleAliveTraversal ==
    Searching("CycleAlive") =>
        /\ (InRange(team_list, LastPerformer.team_id) =>
               probe.result.found =
                   FirstWith(team_list,
                             TraversalAfter(team_list, LastPerformer.team_id,
                                            LastPerformer.member_id),
                             IsAlive))
        /\ probe.result.found # Some(LastPerformer)

\* The last performer (1, 0) of three teams is alive with a dead member behind
\* it; team 2 is dead, and the search wraps to the living second member of team 0
W_C12_WrappedToFirstTeam ==
    /\ Searching("CycleAlive")
    /\ suggested_performer = Some(MemberIdentifier(1, 0))
    /\ Len(team_list) = 3
    /\ Len(team_list[2]) = 2
    /\ team_list[2][1].health > 0
    /\ Len(team_list[3]) = 2
    /\ Len(team_list[1]) = 2
    /\ probe.result.found = Some(MemberIdentifier(0, 1))
    /\ Len(probe.result.examined) = 5

\* C13 as stated: a CycleAlive search returns none only when no member
\* qualifies: when a member other than the last performer has health > 0,
\* the search returns a member.
C13_CycleAliveFindsAnyLiving ==
    (/\ Searching("CycleAlive")
     /\ suggested_performer.some
     /\ MemberExists(team_list, LastPerformer)
     /\ AliveMembers(team_list) \ {LastPerformer} # {}) =>
        probe.result.found.some

NoDuplicates(seq) == \A i, j \in 1..Len(seq) : seq[i] = seq[j] => i = j

\* The test of the policy under evaluation
Qualifies(id, member) ==
    IF suggested_performer_criteria.kind = "CycleAlive" THEN member.health # 0
    ELSE condition_holds(suggested_performer_criteria.condition, id, member)

\* C14: a CycleAlive or CycleWith search ends having looked at each member at
\* most once (so at no more members than the roster has, all of them members
\* of the list), stops at the member it returns, and returns none when no
\* member qualifies; on every team list, empty teams and the empty list
\* included.
C14_SearchExaminesEachMemberOnce ==
    (Searching("CycleAlive") \/ Searching("CycleWith")) =>
        LET examined == probe.result.examined
            found == probe.result.found
        IN  /\ NoDuplicates(examined)
            /\ Len(examined) <= Len(Roster(team_list))
            /\ \A i \in 1..Len(examined) : MemberExists(team_list, examined[i])
            /\ \A i \in 1..Len(examined) :
                  Qualifies(examined[i], tl_member(team_list, examined[i]))
                      <=> (i = Len(examined) /\ found = Some(examined[i]))
            /\ (found.some => examined # <<>>)
            /\ (FirstWith(team_list, Roster(team_list), Qualifies) = None => found = None)

\* A closure no member passes, on a list with an empty team, a team of one
\* and a team of two: every member but the last performer is looked at
W_C14_ExhaustedWithoutMatch ==
    /\ Searching("CycleWith")
    /\ suggested_performer_criteria.condition = "alive"
    /\ suggested_performer = Some(MemberIdentifier(1, 0))
    /\ Len(team_list) = 3
    /\ Len(team_list[1]) = 0
    /\ Len(team_list[2]) = 1
    /\ Len(team_list[3]) = 2
    /\ probe.result.found = None
    /\ probe.result.examined = <<MemberIdentifier(2, 0), MemberIdentifier(2, 1)>>

\* C15: CycleWith(p) follows the traversal of CycleAlive and returns its first
\* member for which p(id, member) holds, p being handed the identifier of the
\* member under test; with p = (health > 0) it returns what CycleAlive
\* returns, for every last performer (none included) and every team list.
C15_CycleWithFollowsCycleAlive ==
    Searching("CycleWith") =>
        LET Test(id, member) ==
                condition_holds(suggested_performer_criteria.condition, id, member)
        IN  /\ (InRange(team_list, LastPerformer.team_id) =>
                   probe.result.found =
                       FirstWith(team_list,
                                 TraversalAfter(team_list, LastPerformer.team_id,
                                                LastPerformer.member_id),
                                 Test))
            /\ (suggested_performer_criteria.condition = "alive" =>
                   probe.result = search_examined(CriteriaCycleAlive, suggested_performer,
                                                  team_list))

\* A closure on the identifier: from last performer (0, 1) the search passes
\* the living first member of team 1 and returns its dead second member
W_C15_ClosureSawIdentifier ==
    /\ Searching("CycleWith")
    /\ suggested_performer_criteria.condition = "second_member"
    /\ suggested_performer = Some(MemberIdentifier(0, 1))
    /\ Len(team_list) = 2
    /\ Len(team_list[1]) = 2
    /\ Len(team_list[2]) = 2
    /\ team_list[2][1].health > 0
    /\ team_list[2][2].health = 0
    /\ probe.result.found = Some(MemberIdentifier(1, 1))


\* The step invokes the decision callback, which is handed the suggested
\* performer the turn started with
CallbackInvoked == callback_calls' = callback_calls + 1

\* C16 as stated: in a battle built with the None policy the decision callback
\* is handed no suggested performer on every turn, and in a battle built with
\* Constant(id) it is handed id on every turn, the first one included.
C16_CallbackSeesPolicySuggestion ==
    [][CallbackInvoked =>
          /\ (suggested_performer_criteria.kind = "None" =>
                 suggested_performer = None)
          /\ (suggested_performer_criteria.kind = "Constant" =>
                 suggested_performer = Some(suggested_performer_criteria.id))]_vars


\* The resolver has been evaluated on a descriptor of the given kind
Resolving(kind) == probe.fn = "target_iter" /\ descriptor.kind = kind

\* C17 as stated: resolving Single(id) when team id.team_id does not exist or
\* id.member_id is out of range yields an empty sequence and does not abort.
C17_MissingSingleYieldsNothing ==
    (Resolving("Single") /\ ~MemberExists(team_list, descriptor.ids[1])) =>
        /\ probe.result.panic = ""
        /\ probe.result.refs = <<>>

\* C18 as stated: resolving FullTeam(team_id) when no team has that index
\* yields an empty sequence, and resolution aborts for no Target value and no
\* team list.
C18_ResolutionNeverAborts ==
    probe.fn = "target_iter" =>
        /\ probe.result.panic = ""
        /\ ((descriptor.kind = "FullTeam" /\ ~InRange(team_list, descriptor.team_id)) =>
               probe.result.refs = <<>>)

\* a comes before b in roster order: by team index, then by member index
Before(a, b) ==
    \/ a.team_id < b.team_id
    \/ (a.team_id = b.team_id /\ a.member_id < b.member_id)

\* seq is in roster order without repetition
InRosterOrder(seq) == \A i, j \in 1..Len(seq) : i < j => Before(seq[i], seq[j])

Elements(seq) == {seq[i] : i \in 1..Len(seq)}

\* C19: resolving DiscreteMultiple(ids) does not abort and yields, once each
\* and in roster order, the members whose identifier occurs in ids, however
\* often it is repeated there; identifiers that denote no member are skipped.
C19_DiscreteMultipleFiltersRoster ==
    Resolving("DiscreteMultiple") =>
        /\ probe.result.panic = ""
        /\ InRosterOrder(probe.result.refs)
        /\ Elements(probe.result.refs) =
              {id \in Elements(descriptor.ids) : MemberExists(team_list, id)}

\* [id, missing, id] on two teams of one member: one reference, for id
W_C19_RepeatedAroundMissing ==
    /\ Resolving("DiscreteMultiple")
    /\ descriptor.ids =
          <<MemberIdentifier(1, 0), MemberIdentifier(0, 1), MemberIdentifier(1, 0)>>
    /\ Len(team_list) = 2
    /\ Len(team_list[1]) = 1
    /\ Len(team_list[2]) = 1
    /\ probe.result.refs = <<MemberIdentifier(1, 0)>>

\* C20: for FullTeam(t) with an existing team t the resolver yields every
\* member of team t once, in member-index order; for All it yields every
\* member of every team once, by team index and then by member index.
C20_FullTeamAndAllInRosterOrder ==
    /\ ((Resolving("FullTeam") /\ InRange(team_list, descriptor.team_id)) =>
           /\ probe.result.panic = ""
           /\ InRosterOrder(probe.result.refs)
           /\ Elements(probe.result.refs) =
                 {MemberIdentifier(descriptor.team_id, m - 1) :
                      m \in 1..Len(team_list[descriptor.team_id + 1])})
    /\ (Resolving("All") =>
           /\ probe.result.panic = ""
           /\ InRosterOrder(probe.result.refs)
           /\ Elements(probe.result.refs) =
                 UNION {{MemberIdentifier(t - 1, m - 1) : m \in 1..Len(team_list[t])} :
                            t \in 1..Len(team_list)})

\* All on a team of two, an empty team and a team of one
W_C20_AllAcrossEmptyTeam ==
    /\ Resolving("All")
    /\ Len(team_list) = 3
    /\ Len(team_list[1]) = 2
    /\ Len(team_list[2]) = 0
    /\ Len(team_list[3]) = 1
    /\ probe.result.refs =
          <<MemberIdentifier(0, 0), MemberIdentifier(0, 1), MemberIdentifier(2, 0)>>


\* Number of members of each team, in team order
Shape(tl) == [t \in 1..Len(tl) |-> Len(tl[t])]

\* The immutable statistics of every member, by team and member index
Statistics(tl) ==
    [t \in 1..Len(tl) |->
        [m \in 1..Len(tl[t]) |-> <<tl[t][m].reference_health, tl[t][m].attack>>]]

\* C21: no call on the battle changes the number of teams, their order, or the
\* number and order of the members of a team: every step leaves the shape of
\* the team list and the statistics found at each index as they were, so a
\* member whose health reaches 0 stays at its index; run() and take_teams()
\* hand back a list of that shape.
C21_RosterShapeIsFixed ==
    [][/\ Shape(team_list') = Shape(team_list)
       /\ Statistics(team_list') = Statistics(team_list)
       /\ (returned'.some => Shape(returned'.teams) = Shape(team_list))]_vars

\* Two turns were executed on a team of two against a team of one and nobody
\* is left alive: members died during the battle and are still in the roster
W_C21_DeadMembersStillListed ==
    /\ act_calls >= 2
    /\ panicked = ""
    /\ Shape(team_list) = <<2, 1>>
    /\ AliveMembers(team_list) = {}


\* The duel of the example: 100 health and 15 attack against 150 and 12
ExampleDuel == Statistics(team_list) = <<<<<<100, 15>>>>, <<<<150, 12>>>>>>

\* Current health of every member, by team
Healths(tl) == [t \in 1..Len(tl) |-> [m \in 1..Len(tl[t]) |-> tl[t][m].health]]

\* C22: in the duel of the example, under LastTeamStanding and the default
\* CycleAlive with DirectAttack by the suggested performer on the opponent,
\* the healths are 100 and 135 after turn 1 with team 1's member suggested,
\* and 88 and 135 after turn 2 with team 0's member suggested.
C22_ExampleDuelFirstTurns ==
    (ExampleDuel /\ panicked = "") =>
        /\ (turn_number = 1 =>
               /\ Healths(team_list) = <<<<100>>, <<135>>>>
               /\ suggested_performer = Some(MemberIdentifier(1, 0))
               /\ state = "InProgress")
        /\ (turn_number = 2 =>
               /\ Healths(team_list) = <<<<88>>, <<135>>>>
               /\ suggested_performer = Some(MemberIdentifier(0, 0))
               /\ state = "InProgress")

\* The example duel after its second turn
W_C22_AfterSecondTurn ==
    /\ ExampleDuel
    /\ turn_number = 2
    /\ callback_calls = 2
    /\ team_list[1][1].health = 88

\* Members without health
DeadMembers(tl) ==
    {id \in {Roster(tl)[i] : i \in 1..Len(Roster(tl))} : health(tl, id) = 0}

\* Sum of the healths of the members refs[i..]
RECURSIVE HealthFrom(_, _, _)
HealthFrom(tl, refs, i) ==
    IF i > Len(refs) THEN 0 ELSE health(tl, refs[i]) + HealthFrom(tl, refs, i + 1)

TotalHealth(tl) == HealthFrom(tl, Roster(tl), 1)

\* C23 as stated: a duel of two living members with positive attack, under
\* LastTeamStanding and the default CycleAlive with DirectAttack by the
\* suggested performer on the opponent. run() reaches Finished and returns:
\* every iteration of its loop lowers the total health, none aborts, and
\* the loop is left, with the battle Finished, at the first turn after which
\* a member has no health; exactly one of the two members is then at 0.
C23_Original_DuelAlwaysFinishes ==
    /\ <>(returned.some /\ state = "Finished")
    /\ [][TotalHealth(team_list') < TotalHealth(team_list)]_vars
    /\ [](/\ panicked = ""
          /\ (state = "Finished" <=> DeadMembers(team_list) # {})
          /\ (state = "Finished" <=> returned.some)
          /\ Cardinality(DeadMembers(team_list)) <= 1)

\* C23, amended: in such a duel run() reaches Finished and returns, or it
\* aborts on the turn behind the last one the counter can count. Every
\* iteration of its loop lowers the total health, or it is that turn and
\* aborts with both members alive and untouched; nothing else aborts. The loop is left, with the battle Finished, at the first turn
\* after which a member has no health; exactly one of the two members is
\* then at 0.
C23_DuelRunsToTheEnd ==
    /\ <>(\/ returned.some /\ state = "Finished"
          \/ panicked = "turn counter overflowed" /\ turn_number = U64_MAX)
    /\ [][\/ /\ TotalHealth(team_list') < TotalHealth(team_list)
             /\ panicked' = ""
          \/ /\ turn_number = U64_MAX
             /\ panicked' = "turn counter overflowed"
             /\ team_list' = team_list]_vars
    /\ [](/\ panicked \in {"", "turn counter overflowed"}
          /\ (panicked # "" => turn_number = U64_MAX /\ DeadMembers(team_list) = {})
          /\ (state = "Finished" <=> DeadMembers(team_list) # {})
          /\ (state = "Finished" <=> returned.some)
          /\ Cardinality(DeadMembers(team_list)) <= 1)

\* run() returned from the example duel: the member of team 0 is down after
\* its opponent's ninth attack
W_C23_ExampleDuelEnded ==
    /\ ExampleDuel
    /\ returned.some
    /\ state = "Finished"
    /\ turn_number = 18
    /\ Healths(team_list) = <<<<0>>, <<15>>>>

\* The identifiers of a roster, as a set
Members(tl) == {Roster(tl)[i] : i \in 1..Len(Roster(tl))}

\* The larger of two integers
Max(a, b) == IF a > b THEN a ELSE b

\* C24: damage(d) sets the member's health to max(h - d, 0) for every health
\* h and every damage d of the integer type; the health never wraps below
\* zero and never rises, and no other member is touched.
C24_DamageSaturatesAtZero ==
    probe.fn = "damage" =>
        LET h == health(probe.before, probe.id)
        IN  /\ health(team_list, probe.id) = Max(h - probe.damage, 0)
            /\ health(team_list, probe.id) <= h
            /\ team_list = set_health(probe.before, probe.id, health(team_list, probe.id))

\* A damage larger than the health left the member at 0
W_C24_DamageBeyondHealth ==
    /\ probe.fn = "damage"
    /\ health(probe.before, probe.id) > 0
    /\ probe.damage > health(probe.before, probe.id)
    /\ health(team_list, probe.id) = 0

\* The members a descriptor resolves to on the list the action started from
Resolved(tl, target) == Elements(target_iter(tl, target).refs)

\* An action of the given kind was applied and returned
Applied(kind) == probe.fn = "act" /\ probe.action.kind = kind /\ panicked = ""

RECURSIVE AttackFrom(_, _, _)
AttackFrom(tl, refs, i) ==
    IF i > Len(refs) THEN 0
    ELSE tl_member(tl, refs[i]).attack + AttackFrom(tl, refs, i + 1)

\* C26: AreaAttack costs each resolved target floor(total performer attack /
\* number of resolved targets), the target's health saturating at 0 (a total
\* of 10 on 3 targets costs each of them 3), and leaves the other members
\* alone; when the target descriptor resolves to no member nothing is
\* divided and no member changes.
C26_AreaAttackSplitsEvenly ==
    (probe.fn = "act" /\ probe.action.kind = "AreaAttack") =>
        LET performers == target_iter(probe.before, probe.performers)
            targets == target_iter(probe.before, probe.targets)
            total == Min(AttackFrom(probe.before, performers.refs, 1), U64_MAX)
            count == Len(targets.refs)
        IN  /\ (performers.panic = "" /\ targets.panic = "" /\ count > 0) =>
                  /\ panicked = ""
                  /\ \A id \in Members(probe.before) :
                        health(team_list, id) =
                            IF id \in Elements(targets.refs)
                            THEN Max(health(probe.before, id) - (total \div count), 0)
                            ELSE health(probe.before, id)
                  /\ (total = 10 /\ count = 3) =>
                        \A id \in Elements(targets.refs) :
                            health(team_list, id) = Max(health(probe.before, id) - 3, 0)
            /\ (performers.panic # "" \/ targets.panic # "" \/ count = 0) =>
                  /\ team_list = probe.before
                  /\ panicked \in {performers.panic, targets.panic}

\* A total attack of 10 was split among the three members of team 1: each
\* lost 3, the member at 2 went to 0
W_C26_TenAmongThree ==
    /\ Applied("AreaAttack")
    /\ probe.performers = Single(MemberIdentifier(0, 0))
    /\ probe.targets = FullTeam(1)
    /\ tl_member(probe.before, MemberIdentifier(0, 0)).attack = 10
    /\ Healths(probe.before) = <<<<90>>, <<100, 50, 2>>>>
    /\ Healths(team_list) = <<<<90>>, <<97, 47, 0>>>>

\* C27: a battle built without set_suggested_performer_criteria uses
\* CycleAlive; a freshly built battle holds the team list the builder was
\* given, is in state Preparating (not finished) with turn counter 0, and the
\* callback of its first turn is handed member 0 of team 0.
C27_BuilderDefaults ==
    /\ [](/\ \A tl \in InitTeamLists, ec \in EndConditions :
                /\ Built(tl, ec, {}).team_list = tl
                /\ Built(tl, ec, {}).end_condition = ec
          /\ (builder_args.criteria = {} =>
                 suggested_performer_criteria = CriteriaCycleAlive)
          /\ ((builder_args.criteria = {} /\ last_op = "build") =>
                 /\ team_list \in InitTeamLists
                 /\ state = "Preparating"
                 /\ ~is_finished(state)
                 /\ turn_number = 0
                 /\ callback_calls = 0))
    /\ [][(builder_args.criteria = {} /\ turn_number = 0 /\ CallbackInvoked) =>
             suggested_performer = Some(zeroed)]_vars

\* The first turn of a battle built with the default policy has been played
W_C27_FirstTurnOfDefaultBattle ==
    /\ builder_args.criteria = {}
    /\ suggested_performer_criteria = CriteriaCycleAlive
    /\ turn_number = 1
    /\ callback_calls = 1
    /\ last_op = "play_turn"

\* C28: after an executed turn that does not finish the battle the suggested
\* performer is the policy's search on the previous suggested performer and
\* the team list the action left: it depends on nothing else, in particular
\* not on the performers and targets the callback chose.
C28_NextSuggestionFromPolicy ==
    [][(ExecutedTurn /\ state' # "Finished") =>
          suggested_performer' =
              search(suggested_performer_criteria, suggested_performer, team_list')]_vars

\* The callback's entry in the log of the last turn played
CallbackEntry(log) == log[CHOOSE i \in 1..Len(log) : log[i].step = "callback"]

\* Under CycleAlive the callback was handed (0, 0) and had (1, 0) perform;
\* the next suggestion is (1, 0), the member behind (0, 0), and not (0, 0),
\* the member behind (1, 0)
W_C28_CallbackChoseAnother ==
    /\ suggested_performer_criteria = CriteriaCycleAlive
    /\ state = "InProgress"
    /\ panicked = ""
    /\ turn_number = 1
    /\ \E i \in 1..Len(turn_log) : turn_log[i].step = "callback"
    /\ CallbackEntry(turn_log).performer = Some(MemberIdentifier(0, 0))
    /\ CallbackEntry(turn_log).choice.performers = Single(MemberIdentifier(1, 0))
    /\ suggested_performer = Some(MemberIdentifier(1, 0))

\* C29: an executed turn that finishes the battle runs no search and leaves
\* the suggested performer as it was at the start of the turn, under every
\* policy.
C29_FinishingTurnKeepsSuggestion ==
    [][(ExecutedTurn /\ state' = "Finished") =>
          /\ suggested_performer' = suggested_performer
          /\ \A i \in 1..Len(turn_log') : turn_log'[i].step # "search"]_vars

\* A battle under Constant((1, 0)) finished by its first turn: the suggested
\* performer is still (0, 0)
W_C29_FinishedUnderConstant ==
    /\ suggested_performer_criteria.kind = "Constant"
    /\ state = "Finished"
    /\ ~forced
    /\ callback_calls = 1
    /\ suggested_performer = Some(zeroed)
    /\ suggested_performer # Some(suggested_performer_criteria.id)
    /\ Steps(turn_log)[Len(turn_log)] = "end_condition"

\* The living member that follows `last` in roster order, the first living
\* member of the roster when none follows
NextLiving(tl, last) ==
    LET behind == SelectSeq(Living(tl), LAMBDA id : Before(last, id))
    IN  IF behind # <<>> THEN behind[1] ELSE Living(tl)[1]

\* C30: under CycleAlive on a team list that does not change and has at
\* least two teams with a living member, feeding each search result back as
\* the last performer suggests, each time, the living member that follows
\* the last performer in roster order (team index, then member index, from
\* the last team on to team 0): never a dead member, every living member once
\* in each cycle, the cycle then starting again.
C30_CycleAliveVisitsEveryLivingMember ==
    (probe.fn = "cycle" /\ Cardinality(AliveTeams(team_list)) >= 2) =>
        LET cycle == Len(Living(team_list))
            last(i) == IF i = 1 THEN unwrap_or_default(probe.start)
                       ELSE unwrap_or_default(turn_log[i - 1])
        IN  /\ \A i \in 1..Len(turn_log) :
                  /\ turn_log[i].some
                  /\ health(team_list, unwrap_or_default(turn_log[i])) > 0
                  /\ unwrap_or_default(turn_log[i]) = NextLiving(team_list, last(i))
            /\ \A i, j \in 1..Len(turn_log) :
                  /\ (i < j /\ j - i < cycle) => turn_log[i] # turn_log[j]
                  /\ (j = i + cycle) => turn_log[i] = turn_log[j]
            /\ Len(turn_log) >= cycle =>
                  {unwrap_or_default(turn_log[i]) : i \in 1..cycle}
                      = Elements(Living(team_list))

\* A full cycle over three teams with a dead member among them, started with
\* no last performer: it went from the last team on to team 0 and is back at
\* its first suggestion
W_C30_FullCycleWithWrap ==
    /\ probe.fn = "cycle"
    /\ probe.start = None
    /\ Len(team_list) = 3
    /\ Len(Living(team_list)) >= 3
    /\ Len(Living(team_list)) < Len(Roster(team_list))
    /\ Cardinality(AliveTeams(team_list)) >= 2
    /\ Len(turn_log) = Len(Living(team_list)) + 1
    /\ turn_log[Len(turn_log)] = turn_log[1]
    /\ \E i \in 1..(Len(turn_log) - 1) :
          /\ turn_log[i].team_id = 2
          /\ turn_log[i + 1] = Some(zeroed)

\* C31: DirectAttack lowers the health of every target by the sum of the
\* performers' attack, the sum saturating at the largest integer and the
\* health at 0; each target takes the whole sum, a member that is not a
\* target keeps its health, performers included, and without performers the
\* damage is 0.
C31_DirectAttackHitsEveryTargetInFull ==
    Applied("DirectAttack") =>
        LET performers == target_iter(probe.before, probe.performers).refs
            total == Min(AttackFrom(probe.before, performers, 1), U64_MAX)
        IN  /\ \A id \in Members(probe.before) :
                  health(team_list, id) =
                      IF id \in Resolved(probe.before, probe.targets)
                      THEN Max(health(probe.before, id) - total, 0)
                      ELSE health(probe.before, id)
            /\ performers = <<>> => team_list = probe.before

\* Two performers whose attack adds up beyond the largest integer hit every
\* member, themselves included: a member at the largest health is at 0
W_C31_SaturatedSumOnAll ==
    /\ Applied("DirectAttack")
    /\ probe.performers = FullTeam(0)
    /\ probe.targets = All
    /\ AttackFrom(probe.before, target_iter(probe.before, probe.performers).refs, 1) > U64_MAX
    /\ health(probe.before, MemberIdentifier(1, 0)) = U64_MAX
    /\ health(team_list, MemberIdentifier(1, 0)) = 0
    /\ health(probe.before, MemberIdentifier(0, 0)) > 0
    /\ health(team_list, MemberIdentifier(0, 0)) = 0

\* C32 as stated: across a Drain, for any performer and target descriptors,
\* the performers gain in total at most the health the targets lost, and the
\* sum of the healths of all members does not grow.
C32_DrainNeverCreatesHealth ==
    Applied("Drain") =>
        LET performers == target_iter(probe.before, probe.performers).refs
            targets == target_iter(probe.before, probe.targets).refs
        IN  /\ HealthFrom(team_list, performers, 1) - HealthFrom(probe.before, performers, 1)
                  <= HealthFrom(probe.before, targets, 1) - HealthFrom(team_list, targets, 1)
            /\ TotalHealth(team_list) <= TotalHealth(probe.before)

\* The battle was built with LastTeamStanding and the default policy on a
\* team list whose team 0 has a member 0, and no call on it has aborted
DefaultBattle ==
    /\ end_condition = "LastTeamStanding"
    /\ builder_args.criteria = {}
    /\ suggested_performer_criteria = CriteriaCycleAlive
    /\ MemberExists(team_list, zeroed)
    /\ panicked = ""

\* C33: in such a battle, whenever the state is InProgress the suggested
\* performer is a member of the roster with health > 0, whatever the callback
\* chose: the search does not come back empty while the battle goes on.
C33_SuggestionAliveWhileInProgress ==
    (DefaultBattle /\ state = "InProgress") =>
        /\ suggested_performer.some
        /\ MemberExists(team_list, unwrap_or_default(suggested_performer))
        /\ health(team_list, unwrap_or_default(suggested_performer)) > 0

\* Two turns into such a battle the search has gone past a dead member and
\* come round to member 0 of team 0
W_C33_CameRoundPastDead ==
    /\ DefaultBattle
    /\ state = "InProgress"
    /\ callback_calls = 2
    /\ suggested_performer = Some(zeroed)
    /\ Len(team_list[1]) = 2
    /\ team_list[1][2].health = 0

\* C34: in a battle under CycleAlive or CycleWith whose team 0 has a member
\* 0, under either end condition and whatever the callback returns, the
\* suggested performer is always none or the identifier of a member of the
\* roster, and no play_turn() aborts on resolving it.
C34_SuggestionAlwaysResolves ==
    (suggested_performer_criteria.kind \in {"CycleAlive", "CycleWith"}
        /\ MemberExists(team_list, zeroed)) =>
        /\ suggested_performer.some =>
              MemberExists(team_list, unwrap_or_default(suggested_performer))
        /\ panicked \notin UnresolvedPanics

\* Under CycleAlive the search came back empty and a further turn was played
\* from no suggested performer
W_C34_PlayedOnWithoutSuggestion ==
    /\ suggested_performer_criteria.kind = "CycleAlive"
    /\ MemberExists(team_list, zeroed)
    /\ panicked = ""
    /\ callback_calls >= 2
    /\ state = "InProgress"
    /\ suggested_performer = None

\* The members an action heals: the targets of Heal and Sacrifice, the
\* performers of Drain
Healed ==
    CASE probe.action.kind \in {"Heal", "Sacrifice"} ->
            Resolved(probe.before, probe.targets)
      [] probe.action.kind = "Drain" -> Resolved(probe.before, probe.performers)
      [] OTHER -> {}

\* C35: from a list on which every health is at most the reference health,
\* any catalogue action with any descriptors leaves every health at most the
\* reference health (so this stays true along any sequence of turns), and a
\* member healed by Heal, Sacrifice or Drain does not end below the health
\* it had.
C35_HealthStaysWithinReference ==
    probe.fn = "act" =>
        /\ \A id \in Members(team_list) :
              health(team_list, id) <= tl_member(team_list, id).reference_health
        /\ panicked = "" =>
              \A id \in Healed : health(team_list, id) >= health(probe.before, id)

\* A Sacrifice of all for all: a member below its reference health paid and
\* was healed up to it, a member at its reference health is back at it
W_C35_SacrificeOfAllForAll ==
    /\ Applied("Sacrifice")
    /\ probe.action.amount = 1
    /\ probe.performers = All
    /\ probe.targets = All
    /\ Len(Roster(team_list)) = 3
    /\ \E id \in Members(team_list) :
          /\ health(probe.before, id) < tl_member(team_list, id).reference_health
          /\ health(probe.before, id) > 0
          /\ health(team_list, id) = tl_member(team_list, id).reference_health
    /\ \E id \in Members(team_list) :
          /\ health(probe.before, id) = tl_member(team_list, id).reference_health
          /\ health(team_list, id) = health(probe.before, id)

\* C36: a catalogue action changes nothing but the health of members its
\* performer or target descriptor denotes: every other member is as it was,
\* Skip leaves the whole list as it was, and the number of members and the
\* reference health and attack of every member are as they were (a member's
\* name is not part of the model: the Member capability only reads it).
C36_OnlyDenotedHealthsChange ==
    probe.fn = "act" =>
        /\ \A id \in Members(probe.before) :
              id \notin (Resolved(probe.before, probe.performers)
                            \cup Resolved(probe.before, probe.targets)) =>
                  tl_member(team_list, id) = tl_member(probe.before, id)
        /\ probe.action.kind = "Skip" => team_list = probe.before
        /\ Shape(team_list) = Shape(probe.before)
        /\ Statistics(team_list) = Statistics(probe.before)

\* A SelfDestruct of member (0, 0) on team 1: both lost health, the living
\* second member of team 0 is as it was
W_C36_BystanderUntouched ==
    /\ Applied("SelfDestruct")
    /\ probe.performers = Single(MemberIdentifier(0, 0))
    /\ probe.targets = FullTeam(1)
    /\ Shape(team_list) = <<2, 1>>
    /\ health(team_list, MemberIdentifier(0, 0)) < health(probe.before, MemberIdentifier(0, 0))
    /\ health(team_list, MemberIdentifier(1, 0)) < health(probe.before, MemberIdentifier(1, 0))
    /\ health(team_list, MemberIdentifier(0, 1)) > 0
    /\ tl_member(team_list, MemberIdentifier(0, 1)) = tl_member(probe.before, MemberIdentifier(0, 1))

\* The step is the first call of play_turn() or run() on a battle on which
\* nothing has been called since it was built
FirstTurnEntered == last_op = "build" /\ PlayTurnEntered

\* C37 as stated: run() or the first play_turn() on a freshly built battle
\* always executes one full turn, whatever the team list: the callback is
\* invoked, the action applied and the turn counter 1, and only then is the
\* end condition looked at.
C37_FirstTurnAlwaysExecuted ==
    [][FirstTurnEntered =>
          /\ turn_number' = 1
          /\ callback_calls' = 1
          /\ act_calls' = 1]_vars

\* C38: a CycleAlive or CycleWith search given no last performer behaves as
\* the search given last performer (0, 0): it looks at the members of team 0
\* from index 1 on, then at the other teams from index 0, returns the first
\* of them that qualifies, and never returns member 0 of team 0.
C38_NoLastPerformerMeansFirstMember ==
    ((Searching("CycleAlive") \/ Searching("CycleWith")) /\ suggested_performer = None) =>
        LET examined == probe.result.examined
            found == probe.result.found
        IN  /\ probe.result = search_examined(suggested_performer_criteria, Some(zeroed),
                                              team_list)
            /\ found # Some(zeroed)
            /\ \A i \in 1..Len(examined) : examined[i] # zeroed
            /\ (team_list = <<>> => examined = <<>> /\ found = None)
            /\ (team_list # <<>> =>
                   LET traversal == TraversalAfter(team_list, 0, 0)
                   IN  /\ Len(examined) <= Len(traversal)
                       /\ examined = SubSeq(traversal, 1, Len(examined))
                       /\ found = FirstWith(team_list, traversal, Qualifies)
                       /\ (found = None => examined = traversal))

\* No last performer, member 0 of team 0 alive and its team mate dead: the
\* search passes the team mate and returns the first member of team 1
W_C38_FirstMemberPassedOver ==
    /\ Searching("CycleAlive")
    /\ suggested_performer = None
    /\ Len(team_list) = 2
    /\ Len(team_list[1]) = 2
    /\ team_list[1][1].health > 0
    /\ team_list[1][2].health = 0
    /\ probe.result.found = Some(MemberIdentifier(1, 0))
    /\ probe.result.examined = <<MemberIdentifier(0, 1), MemberIdentifier(1, 0)>>

====
